---------------------------- MODULE Spec2Model ----------------------------
(***************************************************************************)
(* RetroVerse video library: the record normalizer (lib/videoIndex), the   *)
(* path normalizer (lib/videoPath), the tier classifier (lib/tierMapping), *)
(* the library filter engine and its search parser (pages/VideoLibrary),   *)
(* the ring selection (pages/setBuilderUtils, pages/useConcentricRings),   *)
(* the weighted set sampler and the history weight aggregator              *)
(* (pages/SetBuilder), the library view's index load, and the queue and    *)
(* the player of the playlist context (context/PlaylistContext).           *)
(*                                                                         *)
(* Representation.  A JavaScript string is a sequence of characters; the   *)
(* five letters of the word VIDEO travel together as the one element       *)
(* "VIDEO" (and "video" for its lower-case spelling), so the marker        *)
(* '/VIDEO/' is the three elements "/", "VIDEO", "/".  A JavaScript number *)
(* is kept in tenths (n = 15 stands for 1.5), NaN and the infinities are   *)
(* their own kinds.  A timestamp is kept in hours since the epoch.         *)
(***************************************************************************)
EXTENDS Integers, Sequences, FiniteSets, TLC

VARIABLES
    playcountArg,     \* argument handed to tierFromPlaycount
    tierResult,       \* what tierFromPlaycount returned ("pending" before the call)
    items,            \* the raw index items of the current load
    rows,             \* VideoLibrary / SetBuilder state `rows`
    loaded,           \* TRUE once setRows(parsed) has run
    activeDecades,    \* VideoLibrary state
    activeTiers,      \* VideoLibrary state
    sortMode,         \* VideoLibrary state
    activeSpinYear,   \* VideoLibrary state (a year as a number, or null)
    activeYearDigits, \* VideoLibrary state
    retentionFilter,  \* VideoLibrary state
    search,           \* VideoLibrary state: the search string
    newnessMode,      \* VideoLibrary state: the recency window
    nowMs,            \* what Date.now() returns, in hours since the epoch
    pathArg,          \* argument handed to normalizeVideoPath
    pathResult,       \* what normalizeVideoPath returned
    pathDone,         \* TRUE once normalizeVideoPath has returned
    selectedYear,     \* useConcentricRings state
    selectedSpan,     \* useConcentricRings state (a number of years, or FullSpan)
    selectedEraId,    \* useConcentricRings state
    selectedTier,     \* useConcentricRings state
    selectedCount,    \* useConcentricRings state
    selectedRecency,  \* useConcentricRings state
    selectedGenre,    \* SetBuilder state
    perSong,          \* history document: sequence of <<songKey, totalPlays>>
    historyWeights,   \* SetBuilder state `historyWeights`
    historyLoaded,    \* TRUE once setHistoryWeights(weights) has run
    pool,             \* weightedPick argument `items`
    count,            \* weightedPick argument `count`
    available,        \* weightedPick local `available`
    picks,            \* weightedPick local `picks`
    preview,          \* SetBuilder state `preview`
    pickPc,           \* position inside weightedPick: "idle", "loop", "done"
    loading,          \* VideoLibrary state `loading`
    error,            \* VideoLibrary state `error` (a message, or null)
    cancelled,        \* the load effect's local `cancelled`
    loadPc,           \* position inside the load effect's run(): "idle", "fetching", "done"
    response,         \* what the network answers to fetch(videoIndexUrl)
    queue,            \* PlaylistProvider state `queue`
    nowPlaying,       \* PlaylistProvider state `nowPlaying` (a record, or null)
    playerSource,     \* PlaylistProvider state `playerSource`
    effectPending,    \* TRUE while the queue effect has to run for the last commit
    lastOp            \* the last operation called, and what was playing before it

vars == <<playcountArg, tierResult, items, rows, loaded, activeDecades, activeTiers,
          sortMode, activeSpinYear, activeYearDigits, retentionFilter, search, newnessMode,
          nowMs, pathArg, pathResult, pathDone, selectedYear, selectedSpan, selectedEraId,
          selectedTier, selectedCount, selectedRecency, selectedGenre, perSong,
          historyWeights, historyLoaded, pool, count, available, picks, preview, pickPc,
          loading, error, cancelled, loadPc, response, queue, nowPlaying, playerSource,
          effectPending, lastOp>>

NULL == "null"

Max(a, b) == IF a >= b THEN a ELSE b
Min(a, b) == IF a <= b THEN a ELSE b
Abs(a) == IF a < 0 THEN -a ELSE a

(***************************************************************************)
(* JavaScript values of type `unknown`                                     *)
(***************************************************************************)
JsUndef == [t |-> "undefined", n |-> 0, s |-> <<>>]
JsNull == [t |-> "null", n |-> 0, s |-> <<>>]
JsNaN == [t |-> "nan", n |-> 0, s |-> <<>>]
JsPosInf == [t |-> "inf", n |-> 1, s |-> <<>>]
JsNegInf == [t |-> "inf", n |-> -1, s |-> <<>>]
JsTrue == [t |-> "bool", n |-> 1, s |-> <<>>]
JsFalse == [t |-> "bool", n |-> 0, s |-> <<>>]
\* the number i (an integer)
JsInt(i) == [t |-> "num", n |-> 10 * i, s |-> <<>>]
\* the number x/10
JsTenths(x) == [t |-> "num", n |-> x, s |-> <<>>]
JsStr(str) == [t |-> "str", n |-> 0, s |-> str]

IsNullish(v) == v.t \in {"undefined", "null"}
\* a ?? b
Coalesce(a, b) == IF IsNullish(a) THEN b ELSE a
\* typeof v === 'number'
IsNumberType(v) == v.t \in {"num", "nan", "inf"}
\* typeof v === 'number' && Number.isFinite(v)
IsFiniteNumber(v) == v.t = "num"

(***************************************************************************)
(* Strings                                                                 *)
(***************************************************************************)
DigitChars == <<"0", "1", "2", "3", "4", "5", "6", "7", "8", "9">>
IsSpace(c) == c = " "
IsDigit(c) == \E d \in 1..10 : DigitChars[d] = c
DigitValue(c) == (CHOOSE d \in 1..10 : DigitChars[d] = c) - 1

RECURSIVE TrimStart(_)
TrimStart(str) ==
    IF str # <<>> /\ IsSpace(Head(str)) THEN TrimStart(Tail(str)) ELSE str

RECURSIVE TrimEnd(_)
TrimEnd(str) ==
    IF str # <<>> /\ IsSpace(str[Len(str)])
    THEN TrimEnd(SubSeq(str, 1, Len(str) - 1))
    ELSE str

\* String.prototype.trim
Trim(str) == TrimEnd(TrimStart(str))

\* String.prototype.indexOf, 1-based; 0 when `needle` does not occur
IndexOf(str, needle) ==
    LET hits == {i \in 1..(Len(str) - Len(needle) + 1) :
                    SubSeq(str, i, i + Len(needle) - 1) = needle}
    IN IF hits = {} THEN 0 ELSE CHOOSE i \in hits : \A j \in hits : i <= j

\* str.replace(/\\/g, '/')
SlashesForward(str) == [i \in 1..Len(str) |-> IF str[i] = "\\" THEN "/" ELSE str[i]]

RECURSIVE NatDigits(_)
NatDigits(k) ==
    IF k < 10 THEN <<DigitChars[k + 1]>>
    ELSE NatDigits(k \div 10) \o <<DigitChars[(k % 10) + 1]>>

\* String(x) for the finite number x = n/10
NumberToString(n) ==
    LET a == Abs(n)
        whole == NatDigits(a \div 10)
        frac == IF a % 10 = 0 THEN <<>> ELSE <<".", DigitChars[(a % 10) + 1]>>
    IN (IF n < 0 THEN <<"-">> ELSE <<>>) \o whole \o frac

RECURSIVE DigitsValue(_)
DigitsValue(str) ==
    IF str = <<>> THEN 0
    ELSE 10 * DigitsValue(SubSeq(str, 1, Len(str) - 1)) + DigitValue(str[Len(str)])

AllDigits(str) == str # <<>> /\ \A i \in 1..Len(str) : IsDigit(str[i])

\* Number(str): blank is 0, an optionally signed decimal integer is its value,
\* anything else over the modelled alphabet is NaN
StringToNumber(str) ==
    LET t == Trim(str)
    IN IF t = <<>> THEN JsInt(0)
       ELSE IF AllDigits(t) THEN JsInt(DigitsValue(t))
       ELSE IF Head(t) \in {"-", "+"} /\ AllDigits(Tail(t))
            THEN JsInt((IF Head(t) = "-" THEN -1 ELSE 1) * DigitsValue(Tail(t)))
       ELSE JsNaN

\* Number(v)
ToNumber(v) ==
    CASE v.t = "undefined" -> JsNaN
      [] v.t = "null" -> JsInt(0)
      [] v.t = "bool" -> JsInt(v.n)
      [] v.t = "str" -> StringToNumber(v.s)
      [] OTHER -> v

\* Math.trunc of n/10, as an integer
Trunc(n) == IF n >= 0 THEN n \div 10 ELSE -((-n) \div 10)

(***************************************************************************)
(* lib/videoPath: normalizeVideoPath                                       *)
(***************************************************************************)
Marker == <<"/", "VIDEO", "/">>
CANONICAL_VIDEO_ROOT == <<"/", "Users", "/", "bobhopp", "/", "Library", "/",
                          "CloudStorage", "/", "Dropbox", "/", "VIDEO">>

\* relativePath.replace(/^VIDEO\//, '')
StripVideoPrefix(str) ==
    IF Len(str) >= 2 /\ SubSeq(str, 1, 2) = <<"VIDEO", "/">>
    THEN SubSeq(str, 3, Len(str))
    ELSE str

\* variant: the tail is returned as it stands, backslashes included
normalizeVideoPathRawTail(inputPath) ==
    LET idx == IndexOf(inputPath, Marker)
    IN IF inputPath = <<>> \/ idx = 0
       THEN [relativePath |-> JsNull, absolutePath |-> JsNull]
       ELSE LET tail == SubSeq(inputPath, idx + 1, Len(inputPath))
            IN [relativePath |-> JsStr(tail),
                absolutePath |-> JsStr(CANONICAL_VIDEO_ROOT \o <<"/">>
                                       \o StripVideoPrefix(tail))]

\* relativePath and absolutePath are string | null: JsStr(..) or JsNull
normalizeVideoPath(inputPath) ==
    LET idx == IndexOf(inputPath, Marker)
    IN IF inputPath = <<>> \/ idx = 0
       THEN [relativePath |-> JsNull, absolutePath |-> JsNull]
       ELSE LET tail == SubSeq(inputPath, idx + 1, Len(inputPath))
                relativePath == SlashesForward(tail)
            IN [relativePath |-> JsStr(relativePath),
                absolutePath |-> JsStr(CANONICAL_VIDEO_ROOT \o <<"/">>
                                       \o StripVideoPrefix(relativePath))]

(***************************************************************************)
(* lib/tierMapping: tierFromPlaycount                                      *)
(***************************************************************************)
TIER_ORDER == <<"Promo", "Light", "Medium", "Heavy", "Power">>

tierFromPlaycountHeavy30(playcount) ==
    IF ~IsFiniteNumber(playcount) THEN NULL
    ELSE IF playcount.n <= 10 THEN "Promo"
    ELSE IF playcount.n <= 70 THEN "Light"
    ELSE IF playcount.n <= 150 THEN "Medium"
    ELSE IF playcount.n <= 300 THEN "Heavy"
    ELSE "Power"

tierFromPlaycount(playcount) ==
    IF ~IsFiniteNumber(playcount) THEN NULL
    ELSE IF playcount.n <= 10 THEN "Promo"
    ELSE IF playcount.n <= 70 THEN "Light"
    ELSE IF playcount.n <= 150 THEN "Medium"
    ELSE IF playcount.n <= 290 THEN "Heavy"
    ELSE "Power"

(***************************************************************************)
(* lib/videoIndex: helpers of the record normalizer                        *)
(***************************************************************************)
UpperLetters == <<"A", "B", "C", "D", "E", "F", "G", "H", "I", "J", "K", "L", "M", "N", "O",
                  "P", "Q", "R", "S", "T", "U", "V", "W", "X", "Y", "Z", "E-acute", "U-umlaut">>
LowerLetters == <<"a", "b", "c", "d", "e", "f", "g", "h", "i", "j", "k", "l", "m", "n", "o",
                  "p", "q", "r", "s", "t", "u", "v", "w", "x", "y", "z", "e-acute", "u-umlaut">>
\* toLowerCase of one character
LowerLetter(c) ==
    IF \E k \in 1..Len(UpperLetters) : UpperLetters[k] = c
    THEN LowerLetters[CHOOSE k \in 1..Len(UpperLetters) : UpperLetters[k] = c]
    ELSE c

\* String.prototype.toLowerCase, per element
LowerChar(c) ==
    CASE c \in {"Promo", "promo", "PROMO"} -> "promo"
      [] c \in {"Light", "light", "LIGHT"} -> "light"
      [] c \in {"Medium", "medium", "MEDIUM"} -> "medium"
      [] c \in {"Heavy", "heavy", "HEAVY"} -> "heavy"
      [] c \in {"Power", "power", "POWER"} -> "power"
      [] c \in {"VIDEO", "video"} -> "video"
      [] c \in {"A", "a"} -> "a"
      [] c \in {"B", "b"} -> "b"
      [] c \in {"C", "c"} -> "c"
      [] c \in {"S", "s"} -> "s"
      [] OTHER -> LowerLetter(c)

\* String.prototype.toUpperCase, per element
UpperChar(c) ==
    CASE c \in {"VIDEO", "video"} -> "VIDEO"
      [] c \in {"A", "a"} -> "A"
      [] c \in {"B", "b"} -> "B"
      [] c \in {"C", "c"} -> "C"
      [] c \in {"S", "s"} -> "S"
      [] OTHER -> c

ToLowerCase(str) == [i \in 1..Len(str) |-> LowerChar(str[i])]
ToUpperCase(str) == [i \in 1..Len(str) |-> UpperChar(str[i])]

\* [a-z0-9] under the /i flag
IsAlnum(c) == c \notin {"/", "\\", ".", " ", "-", "_", "#", "*", "+"}

clampToInt(value) ==
    IF IsFiniteNumber(value) THEN JsInt(Trunc(value.n))
    ELSE IF value.t = "str" /\ Trim(value.s) # <<>>
         THEN LET num == ToNumber(value)
              IN IF IsFiniteNumber(num) THEN JsInt(Trunc(num.n)) ELSE JsNull
    ELSE JsNull

\* Timestamps are kept in hours (3 600 000 ms) and only whole hours occur, so
\* 1e12 ms lies between hour 277777 and hour 277778.
EpochSecondsLimit == 277777

\* parseEpochMs: number | null as JsInt(..) or JsNull
parseEpochMs(value) ==
    LET parsed == clampToInt(value)
    IN IF parsed = JsNull THEN JsNull
       ELSE IF Trunc(parsed.n) <= EpochSecondsLimit THEN JsInt(Trunc(parsed.n) * 1000)
       ELSE parsed

asString(value) ==
    IF value.t = "str" THEN Trim(value.s)
    ELSE IF IsFiniteNumber(value) THEN NumberToString(value.n)
    ELSE <<>>

RECURSIVE CollapseSpaces(_)
CollapseSpaces(str) ==
    IF Len(str) < 2 THEN str
    ELSE IF IsSpace(str[1]) /\ IsSpace(str[2]) THEN CollapseSpaces(Tail(str))
    ELSE <<Head(str)>> \o CollapseSpaces(Tail(str))

cleanMusicText(value) ==
    IF value = <<>> THEN <<>>
    ELSE Trim(CollapseSpaces([i \in 1..Len(value) |-> IF value[i] = "_" THEN " " ELSE value[i]]))

\* filePath.split(/[/\\]/).pop()
LastSegment(filePath) ==
    LET seps == {i \in 1..Len(filePath) : filePath[i] \in {"/", "\\"}}
        last == IF seps = {} THEN 0 ELSE CHOOSE i \in seps : \A j \in seps : j <= i
    IN SubSeq(filePath, last + 1, Len(filePath))

\* name.replace(/\.[a-z0-9]+$/i, '')
WithoutExt(name) ==
    LET dots == {i \in 1..(Len(name) - 1) :
                    /\ name[i] = "."
                    /\ \A j \in (i + 1)..Len(name) : IsAlnum(name[j])}
    IN IF dots = {} THEN name
       ELSE SubSeq(name, 1, (CHOOSE i \in dots : \A j \in dots : i <= j) - 1)

Separator == <<" ", "-", " ">>

\* a || b on strings
OrElse(a, b) == IF a # <<>> THEN a ELSE b

deriveTitle(filePath) ==
    LET withoutExt == WithoutExt(LastSegment(filePath))
        at == IndexOf(withoutExt, Separator)
    IN IF at > 0
       THEN OrElse(cleanMusicText(SubSeq(withoutExt, at + 3, Len(withoutExt))),
                   OrElse(cleanMusicText(withoutExt), <<"Untitled">>))
       ELSE OrElse(cleanMusicText(withoutExt), <<"Untitled">>)

deriveArtist(filePath) ==
    LET withoutExt == WithoutExt(LastSegment(filePath))
        at == IndexOf(withoutExt, Separator)
    IN IF at > 0
       THEN OrElse(cleanMusicText(SubSeq(withoutExt, 1, at - 1)), <<"Unknown">>)
       ELSE <<"Unknown">>

normalizeRotationTier(value) ==
    IF value.t # "str" THEN "Deep"
    ELSE LET normalized == ToLowerCase(Trim(value.s))
         IN CASE normalized = <<"new">> -> "New"
              [] normalized = <<"rotation">> -> "Rotation"
              [] normalized = <<"power">> -> "Power"
              [] normalized = <<"heavy">> -> "Heavy"
              [] OTHER -> "Deep"

normalizeCanonicalTier(value) ==
    IF value.t # "str" THEN NULL
    ELSE LET normalized == ToLowerCase(Trim(value.s))
         IN CASE normalized = <<"promo">> -> "Promo"
              [] normalized = <<"light">> -> "Light"
              [] normalized = <<"medium">> -> "Medium"
              [] normalized = <<"heavy">> -> "Heavy"
              [] normalized = <<"power">> -> "Power"
              [] OTHER -> NULL

normalizeRetentionGrade(value) ==
    IF value.t # "str" THEN "C"
    ELSE LET normalized == ToUpperCase(Trim(value.s))
         IN CASE normalized = <<"S">> -> "S"
              [] normalized = <<"A">> -> "A"
              [] normalized = <<"B">> -> "B"
              [] OTHER -> "C"

BreakdownKeys == <<"xmlLifetimePlaycount", "historicalPlays", "eventDiversity",
                   "bpmTransitionUtility", "genreCoverageUniqueness",
                   "artistPresenceNetwork", "eraRelevance", "metadataCompleteness",
                   "freshnessCurve">>
BreakdownKeySet == {BreakdownKeys[i] : i \in 1..Len(BreakdownKeys)}

NoBreakdown == [t |-> "null", o |-> [k \in BreakdownKeySet |-> JsUndef]]

\* the sub-score the loop stores for one key
BreakdownParsed(raw) == IF IsFiniteNumber(raw) THEN raw ELSE ToNumber(raw)

toRetentionBreakdown(value) ==
    IF value.t # "object" THEN NoBreakdown
    ELSE IF \E k \in BreakdownKeySet : ~IsFiniteNumber(BreakdownParsed(value.o[k]))
         THEN NoBreakdown
    ELSE [t |-> "object", o |-> [k \in BreakdownKeySet |-> BreakdownParsed(value.o[k])]]

(***************************************************************************)
(* lib/videoIndex: parseVideoIndexRows                                     *)
(***************************************************************************)
\* a raw item that sets no field at all
BlankItem ==
    [filePath |-> JsUndef, filepath |-> JsUndef, videoId |-> JsUndef, video_id |-> JsUndef,
     title |-> JsUndef, artist |-> JsUndef, author |-> JsUndef, year |-> JsUndef,
     playcount |-> JsUndef, playCount |-> JsUndef, play_count |-> JsUndef,
     addedAt |-> JsUndef, rotationTier |-> JsUndef, tier |-> JsUndef,
     firstSeen |-> JsUndef, first_seen |-> JsUndef, first_seen_ts |-> JsUndef,
     album |-> JsUndef, genre |-> JsUndef,
     retentionScore |-> JsUndef, retention_score |-> JsUndef,
     retentionGrade |-> JsUndef, retention_grade |-> JsUndef,
     retentionStars |-> JsUndef, retention_stars |-> JsUndef,
     retentionStrength |-> JsUndef, retention_strength |-> JsUndef,
     retentionIndicator |-> JsUndef, retention_indicator |-> JsUndef,
     retentionBreakdown |-> [t |-> "undefined", o |-> [k \in BreakdownKeySet |-> JsUndef]],
     retention_breakdown |-> [t |-> "undefined", o |-> [k \in BreakdownKeySet |-> JsUndef]]]

\* asString(item.filePath ?? item.filepath)
RawPath(item) == asString(Coalesce(item.filePath, item.filepath))

\* variant: a row is also given up when it carries no upstream video id
RowResolvableNeedsId(item) ==
    /\ RawPath(item) # <<>>
    /\ normalizeVideoPath(RawPath(item)).relativePath.t = "str"
    /\ asString(Coalesce(item.videoId, item.video_id)) # <<>>

\* the two early `return null` of the map callback do not fire
RowResolvable(item) ==
    /\ RawPath(item) # <<>>
    /\ normalizeVideoPath(RawPath(item)).relativePath.t = "str"
    /\ normalizeVideoPath(RawPath(item)).relativePath.s # <<>>

\* variant: the upstream tier wins over the playcount-derived one
ChooseTierUpstreamFirst(inferredTier, normalizedTier) ==
    IF normalizedTier # NULL THEN normalizedTier ELSE inferredTier

\* inferredTier ?? normalizedTier
ChooseTier(inferredTier, normalizedTier) ==
    IF inferredTier # NULL THEN inferredTier ELSE normalizedTier

\* duplicate === 0 ? idBase : `${idBase}#${duplicate}`
RowId(idBase, duplicate) ==
    IF duplicate = 0 THEN idBase ELSE idBase \o <<"#">> \o NatDigits(duplicate)

\* 'x'.repeat(k)
Repeat(c, k) == [i \in 1..k |-> c]

\* Math.round(a / 20) for an integer a
RoundDiv20(a) == (a + 10) \div 20

IdBase(item, idx) ==
    OrElse(asString(Coalesce(item.videoId, item.video_id)),
           OrElse(normalizeVideoPath(RawPath(item)).relativePath.s,
                  <<"video-">> \o NatDigits(idx)))

\* the VideoRecord the map callback builds for a resolvable item, the item being
\* the idx-th of the batch (from 0) and `duplicate` the count ids.get(idBase) ?? 0
\* variant: the star count is only capped from above
ClampStarsUpperOnly(retentionStars) == Min(5, retentionStars)

\* Math.max(1, Math.min(5, retentionStars))
ClampStars(retentionStars) == Max(1, Min(5, retentionStars))

\* Math.max(1, Math.min(4, retentionStrength))
ClampStrength(retentionStrength) == Max(1, Min(4, retentionStrength))

\* variant: no default when none of the three playcount fields is usable
PlaycountOfNoDefault(item) ==
    Coalesce(clampToInt(item.playcount),
      Coalesce(clampToInt(item.playCount), clampToInt(item.play_count)))

\* clampToInt(item.playcount) ?? clampToInt(item.playCount) ??
\* clampToInt(item.play_count) ?? 0
PlaycountOf(item) ==
    Coalesce(clampToInt(item.playcount),
      Coalesce(clampToInt(item.playCount),
        Coalesce(clampToInt(item.play_count), JsInt(0))))

ParseRow(item, idx, duplicate) ==
    LET rawPath == RawPath(item)
        normalized == normalizeVideoPath(rawPath)
        relativePath == normalized.relativePath.s
        year == clampToInt(item.year)
        playcount == PlaycountOf(item)
        retentionScore ==
            Trunc(Coalesce(clampToInt(Coalesce(item.retentionScore, item.retention_score)),
                           JsInt(0)).n)
        retentionStars ==
            Trunc(Coalesce(clampToInt(Coalesce(item.retentionStars, item.retention_stars)),
                           JsInt(Max(1, RoundDiv20(retentionScore)))).n)
        retentionStrength ==
            Trunc(Coalesce(clampToInt(Coalesce(item.retentionStrength, item.retention_strength)),
                           JsInt(IF retentionScore >= 85 THEN 4
                                 ELSE IF retentionScore >= 70 THEN 3
                                 ELSE IF retentionScore >= 55 THEN 2 ELSE 1)).n)
        retentionIndicator ==
            OrElse(asString(Coalesce(item.retentionIndicator, item.retention_indicator)),
                   Repeat("*", Max(1, retentionStars))
                       \o Repeat("-", Max(0, 5 - Max(1, retentionStars))))
        videoId == asString(Coalesce(item.videoId, item.video_id))
        inferredTier == tierFromPlaycount(playcount)
        normalizedTier == normalizeCanonicalTier(item.tier)
    IN [id |-> RowId(IdBase(item, idx), duplicate),
        videoId |-> videoId,
        filePath |-> relativePath,
        absolutePath |-> normalized.absolutePath,
        filename |-> LastSegment(relativePath),
        title |-> OrElse(cleanMusicText(asString(item.title)), deriveTitle(relativePath)),
        artist |-> OrElse(cleanMusicText(asString(Coalesce(item.artist, item.author))),
                          deriveArtist(relativePath)),
        year |-> year,
        album |-> OrElse(cleanMusicText(asString(item.album)), <<"emdash">>),
        genre |-> OrElse(cleanMusicText(asString(item.genre)), <<"emdash">>),
        playcount |-> Trunc(playcount.n),
        firstSeenMs |-> parseEpochMs(Coalesce(item.firstSeen,
                                        Coalesce(item.first_seen, item.first_seen_ts))),
        addedAt |-> asString(item.addedAt),
        rotationTier |-> normalizeRotationTier(item.rotationTier),
        tier |-> ChooseTier(inferredTier, normalizedTier),
        retentionScore |-> retentionScore,
        retentionGrade |-> normalizeRetentionGrade(Coalesce(item.retentionGrade, item.retention_grade)),
        retentionStars |-> ClampStars(retentionStars),
        retentionStrength |-> ClampStrength(retentionStrength),
        retentionIndicator |-> retentionIndicator,
        retentionBreakdown |->
            toRetentionBreakdown(IF IsNullish(item.retentionBreakdown)
                                 THEN item.retention_breakdown
                                 ELSE item.retentionBreakdown),
        raw |-> item]

\* ids.get(key) ?? 0
IdsGet(ids, key) == IF key \in DOMAIN ids THEN ids[key] ELSE 0
\* ids.set(key, value)
IdsSet(ids, key, value) ==
    [k \in (DOMAIN ids) \cup {key} |-> IF k = key THEN value ELSE ids[k]]

\* items.map(...).filter(Boolean) from the i-th item on (i from 1), `ids` being
\* the Map the callback shares and `acc` the rows kept so far
RECURSIVE ParseFrom(_, _, _, _)
ParseFrom(its, i, ids, acc) ==
    IF i > Len(its) THEN acc
    ELSE IF ~RowResolvable(its[i]) THEN ParseFrom(its, i + 1, ids, acc)
    ELSE LET idBase == IdBase(its[i], i - 1)
             duplicate == IdsGet(ids, idBase)
         IN ParseFrom(its, i + 1, IdsSet(ids, idBase, duplicate + 1),
                      Append(acc, ParseRow(its[i], i - 1, duplicate)))

parseVideoIndexRows(its) == ParseFrom(its, 1, <<>>, <<>>)

\* loadVideoIndex, for the network's answer `resp` and the array `its` its body
\* carries: a rejected fetch or an unparsable body rejects with that error's
\* message, a status outside 200..299 throws, a body that is neither
\* {items: [...]} nor an array gives no rows
loadVideoIndex(resp, its) ==
    IF resp.kind = "reject" THEN [threw |-> TRUE, message |-> resp.message, rows |-> <<>>]
    ELSE IF ~resp.ok
    THEN [threw |-> TRUE,
          message |-> <<"Failed to load video-index.json (">> \o NatDigits(resp.status)
                      \o <<")">>,
          rows |-> <<>>]
    ELSE IF resp.body = "invalid"
    THEN [threw |-> TRUE, message |-> resp.message, rows |-> <<>>]
    ELSE [threw |-> FALSE, message |-> <<>>,
          rows |-> parseVideoIndexRows(IF resp.body \in {"items", "array"} THEN its
                                       ELSE <<>>)]


(***************************************************************************)
(* pages/VideoLibrary: the filter engine                                   *)
(***************************************************************************)
SORT_CYCLE == <<"plays", "year", "title", "artist">>
DECADE_PILLS == <<"60s", "70s", "80s", "90s", "00s", "10s">>
NEWNESS_FILTERS == <<"all", "30d", "90d", "1y">>
TIER_FILTERS == <<"promo", "light", "medium", "heavy", "power">>
RETENTION_FILTERS == <<"all", "S", "A", "B", "C">>

SeqRange(q) == {q[i] : i \in 1..Len(q)}

\* row.year as an integer, for a row whose year is a number
YearNumber(year) == Trunc(year.n)

matchesDecade(year, pill) ==
    IF ~IsNumberType(year) THEN FALSE
    ELSE CASE pill = "60s" -> YearNumber(year) >= 1960 /\ YearNumber(year) <= 1969
           [] pill = "70s" -> YearNumber(year) >= 1970 /\ YearNumber(year) <= 1979
           [] pill = "80s" -> YearNumber(year) >= 1980 /\ YearNumber(year) <= 1989
           [] pill = "90s" -> YearNumber(year) >= 1990 /\ YearNumber(year) <= 1999
           [] pill = "00s" -> YearNumber(year) >= 2000 /\ YearNumber(year) <= 2009
           [] OTHER -> YearNumber(year) >= 2010

\* a tier is a one-word string: value.toLowerCase()
normalizeTierFilter(value) ==
    IF value = NULL THEN NULL
    ELSE IF LowerChar(value) \in SeqRange(TIER_FILTERS) THEN LowerChar(value)
    ELSE NULL

\* the collation order of String.prototype.localeCompare over the modelled
\* alphabet: punctuation, digits, then letters, case ignored at the first level
CollationAlphabet == <<" ", "_", "-", ".", "#", "0", "1", "2", "3", "4", "5", "6", "7",
                       "8", "9", "a", "b", "c", "s">>
CollationRank(c) ==
    LET at == {i \in 1..Len(CollationAlphabet) : CollationAlphabet[i] = LowerChar(c)}
    IN IF at = {} THEN Len(CollationAlphabet) + 1 ELSE CHOOSE i \in at : TRUE

\* lexicographic comparison of two sequences of integers: -1, 0 or 1
RECURSIVE LexCompare(_, _)
LexCompare(a, b) ==
    IF a = <<>> /\ b = <<>> THEN 0
    ELSE IF a = <<>> THEN -1
    ELSE IF b = <<>> THEN 1
    ELSE IF Head(a) < Head(b) THEN -1
    ELSE IF Head(a) > Head(b) THEN 1
    ELSE LexCompare(Tail(a), Tail(b))

\* a.localeCompare(b): letters first, then lower case before upper case
localeCompare(a, b) ==
    LET primary == LexCompare([i \in 1..Len(a) |-> CollationRank(a[i])],
                              [i \in 1..Len(b) |-> CollationRank(b[i])])
        caseOf(str) == [i \in 1..Len(str) |-> IF str[i] = LowerChar(str[i]) THEN 0 ELSE 1]
    IN IF primary # 0 THEN primary ELSE LexCompare(caseOf(a), caseOf(b))

\* b.year ?? -1
YearOrMinusOne(year) == IF IsNullish(year) THEN -1 ELSE YearNumber(year)

\* x || y on numbers
NumOr(x, y) == IF x # 0 THEN x ELSE y

\* the comparator handed to Array.prototype.sort
sortCompare(a, b, mode) ==
    CASE mode = "plays" -> NumOr(b.playcount - a.playcount, localeCompare(a.title, b.title))
      [] mode = "year" ->
            NumOr(YearOrMinusOne(b.year) - YearOrMinusOne(a.year), localeCompare(a.title, b.title))
      [] mode = "artist" ->
            NumOr(localeCompare(a.artist, b.artist), localeCompare(a.title, b.title))
      [] OTHER -> localeCompare(a.title, b.title)

\* Array.prototype.sort is stable: an element goes after every element that does
\* not compare greater than it
RECURSIVE InsertStable(_, _, _)
InsertStable(sorted, row, mode) ==
    IF sorted = <<>> THEN <<row>>
    ELSE IF sortCompare(Head(sorted), row, mode) <= 0
         THEN <<Head(sorted)>> \o InsertStable(Tail(sorted), row, mode)
    ELSE <<row>> \o sorted

RECURSIVE SortRows(_, _)
SortRows(list, mode) ==
    IF list = <<>> THEN <<>>
    ELSE InsertStable(SortRows(SubSeq(list, 1, Len(list) - 1), mode), list[Len(list)], mode)

(***************************************************************************)
(* pages/VideoLibrary: the search query parser                             *)
(***************************************************************************)
\* the characters of an element that stands for a whole word; an accented
\* letter and a dash outside ASCII are one element each ("e-acute", "endash")
Spell(c) ==
    CASE c = "VIDEO" -> <<"V", "I", "D", "E", "O">>
      [] c = "video" -> <<"v", "i", "d", "e", "o">>
      [] c = "Users" -> <<"U", "s", "e", "r", "s">>
      [] c = "mp4" -> <<"m", "p", "4">>
      [] c = "D:" -> <<"D", ":">>
      [] c \in {"Promo", "promo"} -> <<LowerLetter("P"), "r", "o", "m", "o">>
      [] c \in {"Light", "light"} -> <<LowerLetter("L"), "i", "g", "h", "t">>
      [] c \in {"Medium", "medium"} -> <<LowerLetter("M"), "e", "d", "i", "u", "m">>
      [] c \in {"Heavy", "heavy"} -> <<LowerLetter("H"), "e", "a", "v", "y">>
      [] c \in {"Power", "power"} -> <<LowerLetter("P"), "o", "w", "e", "r">>
      [] c = "bogus" -> <<"b", "o", "g", "u", "s">>
      [] OTHER -> <<c>>

\* a string written out character by character
RECURSIVE Explode(_)
Explode(str) == IF str = <<>> THEN <<>> ELSE Spell(Head(str)) \o Explode(Tail(str))

\* normalize('NFD').replace(/[\u0300-\u036f]/g, '') on one lower-case character
StripDiacritic(c) ==
    CASE c = "e-acute" -> "e"
      [] c = "u-umlaut" -> "u"
      [] OTHER -> c

\* [a-z0-9]
IsLowerAlnum(c) == IsDigit(c) \/ \E k \in 1..26 : LowerLetters[k] = c

\* the maximal runs of non-space characters: split(/\s+/) without empty pieces
RECURSIVE Words(_)
Words(str) ==
    LET t == TrimStart(str)
        spaces == {i \in 1..Len(t) : IsSpace(t[i])}
        stop == IF spaces = {} THEN Len(t) + 1 ELSE CHOOSE i \in spaces : \A j \in spaces : i <= j
    IN IF t = <<>> THEN <<>>
       ELSE <<SubSeq(t, 1, stop - 1)>> \o Words(SubSeq(t, stop, Len(t)))

\* Array.prototype.join(' ')
RECURSIVE JoinSpace(_)
JoinSpace(parts) ==
    IF parts = <<>> THEN <<>>
    ELSE IF Len(parts) = 1 THEN parts[1]
    ELSE parts[1] \o <<" ">> \o JoinSpace(Tail(parts))

normalizeSearchText(value) ==
    LET folded == [i \in 1..Len(value) |-> StripDiacritic(LowerLetter(value[i]))]
        spaced == [i \in 1..Len(folded) |-> IF IsLowerAlnum(folded[i]) THEN folded[i] ELSE " "]
    IN Trim(CollapseSpaces(spaced))

tokenize(value) == Words(normalizeSearchText(value))

NoYear == 0 - 1

\* parseYearToken; NoYear stands for null (no token of digits is negative)
parseYearToken(value) ==
    IF ~(AllDigits(value) /\ Len(value) >= 2 /\ Len(value) <= 4) THEN NoYear
    ELSE IF Len(value) = 2 THEN 1900 + DigitsValue(value)
    ELSE DigitsValue(value)

\* value.match(/^(\d{2,4})-(\d{2,4})$/): the position of the hyphen, 0 for no match
RangeHyphen(value) ==
    LET at == {i \in 1..Len(value) :
                  /\ value[i] = "-"
                  /\ parseYearToken(SubSeq(value, 1, i - 1)) # NoYear
                  /\ parseYearToken(SubSeq(value, i + 1, Len(value))) # NoYear}
    IN IF at = {} THEN 0 ELSE CHOOSE i \in at : TRUE

\* variant: a two-digit right part is always read as 19xx
parseYearRangeTokenNoCentury(value) ==
    LET h == RangeHyphen(value)
        left == parseYearToken(SubSeq(value, 1, h - 1))
        right == parseYearToken(SubSeq(value, h + 1, Len(value)))
    IN IF h = 0 THEN [ok |-> FALSE, start |-> 0, end |-> 0]
       ELSE [ok |-> TRUE, start |-> Min(left, right), end |-> Max(left, right)]

\* parseYearRangeToken; ok = FALSE stands for null
parseYearRangeToken(value) ==
    LET h == RangeHyphen(value)
        m1 == SubSeq(value, 1, h - 1)
        m2 == SubSeq(value, h + 1, Len(value))
        left == parseYearToken(m1)
        right == IF Len(m1) = 4 /\ Len(m2) = 2
                 THEN (left \div 100) * 100 + DigitsValue(m2)
                 ELSE parseYearToken(m2)
    IN IF h = 0 THEN [ok |-> FALSE, start |-> 0, end |-> 0]
       ELSE [ok |-> TRUE, start |-> Min(left, right), end |-> Max(left, right)]

EmptyQuery == [textParts |-> <<>>, yearValues |-> <<>>, yearRanges |-> <<>>]

\* the loop over rawTokens, from the i-th token on
RECURSIVE ParseTokens(_, _, _)
ParseTokens(rawTokens, i, acc) ==
    IF i > Len(rawTokens) THEN acc
    ELSE LET cleaned == SelectSeq(rawTokens[i], LAMBDA c : IsLowerAlnum(c) \/ c = "-")
             yearRange == parseYearRangeToken(cleaned)
             yearValue == parseYearToken(cleaned)
         IN ParseTokens(rawTokens, i + 1,
                IF cleaned = <<>> THEN acc
                ELSE IF yearRange.ok
                     THEN [acc EXCEPT !.yearRanges =
                               Append(@, [start |-> yearRange.start, end |-> yearRange.end])]
                ELSE IF yearValue # NoYear /\ Len(cleaned) = 4
                     THEN [acc EXCEPT !.yearValues = Append(@, yearValue)]
                ELSE [acc EXCEPT !.textParts = Append(@, cleaned)])

parseSearch(query) ==
    LET normalizedQuery == [i \in 1..Len(query) |->
                               IF query[i] \in {"endash", "emdash"} THEN "-" ELSE query[i]]
        lowered == [i \in 1..Len(normalizedQuery) |-> LowerLetter(normalizedQuery[i])]
        parsed == ParseTokens(Words(lowered), 1, EmptyQuery)
    IN [textTokens |-> tokenize(JoinSpace(parsed.textParts)),
        yearValues |-> parsed.yearValues,
        yearRanges |-> parsed.yearRanges]


SpinYearStage(row, spinYear) ==
    IsNullish(spinYear) \/ (IsNumberType(row.year) /\ YearNumber(row.year) = YearNumber(spinYear))

DecadeStage(row, decades) ==
    decades = {} \/ \E pill \in decades : matchesDecade(row.year, pill)

YearDigitStage(row, digits) ==
    digits = {} \/ (IsNumberType(row.year) /\ (Abs(YearNumber(row.year)) % 10) \in digits)

RetentionStage(row, grade) == grade = "all" \/ row.retentionGrade = grade

TierStage(row, tiers) ==
    tiers = {} \/ (normalizeTierFilter(row.tier) # NULL /\ normalizeTierFilter(row.tier) \in tiers)

\* rowSearchText: the joined fields, character by character, lower-cased
rowSearchText(row) ==
    LET yearText == IF IsNumberType(row.year) /\ row.year.n # 0
                    THEN NumberToString(row.year.n) ELSE <<>>
        tierText == IF row.tier = NULL THEN <<>> ELSE <<row.tier>>
        joined == JoinSpace(<<row.title, row.artist, yearText, row.filePath, row.album,
                              row.genre, <<row.retentionGrade>>, tierText>>)
        spelled == Explode(joined)
    IN [i \in 1..Len(spelled) |-> LowerLetter(spelled[i])]

\* word.startsWith(token)
StartsWith(word, token) ==
    Len(token) <= Len(word) /\ SubSeq(word, 1, Len(token)) = token

TextStage(row, textTokens) ==
    textTokens = <<>> \/
        LET words == tokenize(rowSearchText(row))
        IN \A t \in 1..Len(textTokens) :
               \E w \in 1..Len(words) : StartsWith(words[w], textTokens[t])

\* variant: one matching exact year is enough
YearValueStageAny(row, yearValues) ==
    yearValues = <<>> \/
        (IsNumberType(row.year) /\
            \E k \in 1..Len(yearValues) : YearNumber(row.year) = yearValues[k])

\* the exact-year test of the first .filter: every exact year equals row.year
YearValueStage(row, yearValues) ==
    yearValues = <<>> \/
        (IsNumberType(row.year) /\
            \A k \in 1..Len(yearValues) : YearNumber(row.year) = yearValues[k])

\* variant: one matching range is enough
YearRangeStageAny(row, yearRanges) ==
    yearRanges = <<>> \/
        (IsNumberType(row.year) /\
            \E k \in 1..Len(yearRanges) :
                /\ YearNumber(row.year) >= yearRanges[k].start
                /\ YearNumber(row.year) <= yearRanges[k].end)

YearRangeStage(row, yearRanges) ==
    yearRanges = <<>> \/
        (IsNumberType(row.year) /\
            \A k \in 1..Len(yearRanges) :
                /\ YearNumber(row.year) >= yearRanges[k].start
                /\ YearNumber(row.year) <= yearRanges[k].end)

\* the first three tests of the filter callback
SearchStage(row, query) ==
    /\ TextStage(row, query.textTokens)
    /\ YearValueStage(row, query.yearValues)
    /\ YearRangeStage(row, query.yearRanges)

\* days from 1970-01-01 to the civil date y-m-d
DaysFromCivil(y, m, d) ==
    LET yy == IF m <= 2 THEN y - 1 ELSE y
        era == yy \div 400
        yoe == yy - era * 400
        mp == IF m > 2 THEN m - 3 ELSE m + 9
        doy == (153 * mp + 2) \div 5 + d - 1
        doe == yoe * 365 + yoe \div 4 - yoe \div 100 + doy
    IN era * 146097 + doe - 719468

DaysInMonth(y, m) ==
    IF m = 2 THEN (IF (y % 4 = 0 /\ y % 100 # 0) \/ y % 400 = 0 THEN 29 ELSE 28)
    ELSE IF m \in {4, 6, 9, 11} THEN 30 ELSE 31

\* new Date(text).getTime() in hours, for text that is a date 'YYYY-MM-DD' (read
\* as midnight UTC); any other text of the modelled alphabet is an Invalid Date
DateGetTime(text) ==
    LET shaped == /\ Len(text) = 10 /\ text[5] = "-" /\ text[8] = "-"
                  /\ AllDigits(SubSeq(text, 1, 4)) /\ AllDigits(SubSeq(text, 6, 7))
                  /\ AllDigits(SubSeq(text, 9, 10))
        y == DigitsValue(SubSeq(text, 1, 4))
        m == DigitsValue(SubSeq(text, 6, 7))
        d == DigitsValue(SubSeq(text, 9, 10))
    IN IF shaped /\ m \in 1..12 /\ d \in 1..DaysInMonth(y, m)
       THEN JsInt(DaysFromCivil(y, m, d) * 24)
       ELSE JsNaN

recencyMatch(row, mode, now) ==
    IF mode = "all" THEN TRUE
    ELSE LET windowDays == IF mode = "30d" THEN 30 ELSE IF mode = "90d" THEN 90 ELSE 365
             threshold == now - windowDays * 24
             asMs == DateGetTime(row.addedAt)
         IN IF row.firstSeenMs.t = "num" /\ row.firstSeenMs.n # 0
            THEN Trunc(row.firstSeenMs.n) >= threshold
            ELSE IF row.addedAt # <<>> /\ IsFiniteNumber(asMs)
                 THEN Trunc(asMs.n) >= threshold
            ELSE FALSE


\* the categorical stages and the sort of the useMemo `filteredVideos`: its
\* result for an empty search string and newnessMode 'all', where the text,
\* year-token and recency stages pass every row
FilteredVideos(rws, spinYear, decades, digits, grade, tiers, mode) ==
    SortRows(SelectSeq(rws, LAMBDA row :
                 /\ SpinYearStage(row, spinYear)
                 /\ DecadeStage(row, decades)
                 /\ YearDigitStage(row, digits)
                 /\ RetentionStage(row, grade)
                 /\ TierStage(row, tiers)),
             mode)

\* the useMemo `filteredVideos`, `query` being parseSearch(search)
filteredVideos ==
    LET query == parseSearch(search)
    IN SortRows(SelectSeq(rows, LAMBDA row :
                    /\ SearchStage(row, query)
                    /\ SpinYearStage(row, activeSpinYear)
                    /\ DecadeStage(row, activeDecades)
                    /\ YearDigitStage(row, activeYearDigits)
                    /\ RetentionStage(row, retentionFilter)
                    /\ TierStage(row, activeTiers)
                    /\ recencyMatch(row, newnessMode, nowMs)),
                sortMode)

\* variant: the comparator sort is applied to `rows` itself
MemoReceiverSorted(rws, mode) == SortRows(rws, mode)

\* the array held in `rows` once the useMemo `filteredVideos` has run under
\* sort mode `mode`: the first rows.filter(...) returns a new array and leaves
\* its receiver alone, and .sort reorders the array the last .filter returned
MemoReceiver(rws, mode) == rws

(***************************************************************************)
(* pages/SetBuilder: the history weight aggregator                         *)
(***************************************************************************)
\* weights[key] ?? 0
WeightOrZero(weights, key) == IF key \in DOMAIN weights THEN weights[key] ELSE 0
\* weights[key] = value
WeightSet(weights, key, value) ==
    [k \in (DOMAIN weights) \cup {key} |-> IF k = key THEN value ELSE weights[k]]

\* typeof stats?.totalPlays === 'number' ? stats.totalPlays : 0, in whole plays
TotalPlays(stats) == IF IsFiniteNumber(stats) THEN Trunc(stats.n) ELSE 0

\* one turn of the loop over Object.entries(history.perSong)
AggregateEntry(weights, songKey, stats) ==
    LET plays == TotalPlays(stats)
        normalized == SlashesForward(songKey)
        videoMarker == IndexOf(ToUpperCase(normalized), Marker)
        rel == SlashesForward(Marker \o SubSeq(normalized, videoMarker + Len(Marker),
                                               Len(normalized)))
        withRel == IF videoMarker > 0
                   THEN WeightSet(weights, rel, Max(WeightOrZero(weights, rel), plays))
                   ELSE weights
    IN WeightSet(withRel, songKey, Max(WeightOrZero(withRel, songKey), plays))

RECURSIVE AggregateFrom(_, _, _)
AggregateFrom(entries, i, weights) ==
    IF i > Len(entries) THEN weights
    ELSE AggregateFrom(entries, i + 1, AggregateEntry(weights, entries[i][1], entries[i][2]))

\* the weights object the history effect hands to setHistoryWeights
AggregateHistory(entries) == AggregateFrom(entries, 1, <<>>)

(***************************************************************************)
(* pages/SetBuilder: weightedPick.  Weights are kept in thousandths, a     *)
(* Math.random() draw is k / RandomSteps for k in 0..RandomSteps-1.        *)
(***************************************************************************)
PreviewIntensity == 5

clamp(value, min, max) == Min(max, Max(min, value))

\* historyWeights[item.filePath] ?? historyWeights[item.id] ?? 0
HistoryLookup(weights, item) ==
    IF item.filePath \in DOMAIN weights THEN weights[item.filePath]
    ELSE IF item.id \in DOMAIN weights THEN weights[item.id]
    ELSE 0

\* the weight of one candidate, in thousandths, for the draw k / steps
ItemWeight(item, intensity, weights, k, steps) ==
    LET libraryPlays == Max(0, item.playcount)
        historyPlays == Max(0, HistoryLookup(weights, item))
        combinedPlays == libraryPlays + historyPlays
        retention100 == clamp(item.retentionScore, 0, 100)
        retentionBias1000 == 650 + 11 * retention100
        inner1000 == 1000 + ((intensity * 1000 * k) \div steps)
                          + ((intensity * 500) \div (1 + combinedPlays))
    IN (retentionBias1000 * inner1000) \div 1000

RECURSIVE SumSeq(_)
SumSeq(q) == IF q = <<>> THEN 0 ELSE Head(q) + SumSeq(Tail(q))

\* the roulette walk: the first index at which the cursor is used up, else 0
\* (indices from 0, as `selected`)
SelectedIndex(weights, cursor) ==
    LET hits == {i \in 1..Len(weights) : cursor - SumSeq(SubSeq(weights, 1, i)) <= 0}
    IN IF hits = {} THEN 0 ELSE (CHOOSE i \in hits : \A j \in hits : i <= j) - 1

\* variant: the picked record stays in the pool
SpliceKeeping(list, index) == list

\* available.splice(index, 1), index from 0
Splice(list, index) == SubSeq(list, 1, index) \o SubSeq(list, index + 2, Len(list))

(***************************************************************************)
(* pages/setBuilderUtils and pages/useConcentricRings: the ring selection  *)
(***************************************************************************)
YEAR_DOMAIN_MIN == 1950
YEAR_DOMAIN_MAX == 2025
YEAR_VALUES == YEAR_DOMAIN_MIN..YEAR_DOMAIN_MAX
\* the span 'FULL' is written FullSpan; no numeric span is 0
FullSpan == 0
SPAN_VALUES == <<1, 3, 5, 7, 10, FullSpan>>
COUNT_VALUES == <<5, 10, 15, 20, 25>>
PLAY_TIERS == <<"promo", "light", "medium", "heavy", "power">>
ERA_DEFINITIONS ==
    <<[id |-> "none", start |-> YEAR_DOMAIN_MIN, end |-> YEAR_DOMAIN_MAX],
      [id |-> "disco", start |-> 1974, end |-> 1982],
      [id |-> "new-wave", start |-> 1978, end |-> 1986],
      [id |-> "classic-rock", start |-> 1965, end |-> 1980],
      [id |-> "hair-metal", start |-> 1983, end |-> 1991],
      [id |-> "grunge", start |-> 1989, end |-> 1995],
      [id |-> "edm", start |-> 2005, end |-> 2020]>>

\* a YearRange | null: ok = FALSE stands for null
NoRange == [ok |-> FALSE, start |-> 0, end |-> 0]
YearRange(start, end) == [ok |-> TRUE, start |-> start, end |-> end]

\* clampYear on a whole year (Math.round leaves it as it is)
clampYear(year) == clamp(year, YEAR_DOMAIN_MIN, YEAR_DOMAIN_MAX)

computeSpanWindow(year, span) ==
    IF span = FullSpan THEN YearRange(YEAR_DOMAIN_MIN, YEAR_DOMAIN_MAX)
    ELSE LET start == clampYear(year - span)
             end == clampYear(year + span)
         IN YearRange(Min(start, end), Max(start, end))

intersectYearRanges(left, right) ==
    LET start == Max(left.start, right.start)
        end == Min(left.end, right.end)
    IN IF start > end THEN NoRange ELSE YearRange(start, end)

getEraDefinition(eraId) ==
    IF \E k \in 1..Len(ERA_DEFINITIONS) : ERA_DEFINITIONS[k].id = eraId
    THEN ERA_DEFINITIONS[CHOOSE k \in 1..Len(ERA_DEFINITIONS) : ERA_DEFINITIONS[k].id = eraId]
    ELSE ERA_DEFINITIONS[1]

tierSelectionToIds(selection) ==
    IF selection = "mixed" THEN SeqRange(PLAY_TIERS) ELSE {selection}

\* useConcentricRings: overlapRange
overlapRange(year, span, eraId) ==
    LET spanWindow == computeSpanWindow(year, span)
        selectedEra == getEraDefinition(eraId)
        eraRange == YearRange(selectedEra.start, selectedEra.end)
    IN IF eraId = "none" THEN spanWindow ELSE intersectYearRanges(spanWindow, eraRange)

\* variant: without an overlap the span window is used
effectiveRangeOrWindow(year, span, eraId) ==
    IF overlapRange(year, span, eraId).ok THEN overlapRange(year, span, eraId)
    ELSE computeSpanWindow(year, span)

\* useConcentricRings: hasEraOverlap && overlapRange ? overlapRange : null
effectiveRange(year, span, eraId) ==
    LET hasEraOverlap == eraId = "none" \/ overlapRange(year, span, eraId).ok
    IN IF hasEraOverlap /\ overlapRange(year, span, eraId).ok
       THEN overlapRange(year, span, eraId)
       ELSE NoRange

\* parseAddedAt: number | null as a number of hours or JsNull
parseAddedAt(row) ==
    IF row.firstSeenMs.t = "num" /\ row.firstSeenMs.n # 0 THEN row.firstSeenMs
    ELSE IF row.addedAt # <<>> /\ IsFiniteNumber(DateGetTime(row.addedAt))
         THEN DateGetTime(row.addedAt)
    ELSE JsNull

\* the useMemo `filtered` of SetBuilder
SetBuilderFiltered(rws, range, activeTierIds, recency, now, genre) ==
    IF ~range.ok THEN <<>>
    ELSE SelectSeq(rws, LAMBDA row :
             LET rowTier == IF row.tier = NULL THEN "" ELSE LowerChar(row.tier)
                 days == IF recency = "7d" THEN 7 ELSE IF recency = "30d" THEN 30 ELSE 90
                 timestamp == parseAddedAt(row)
             IN /\ rowTier \in activeTierIds
                /\ IsNumberType(row.year)
                /\ ~(YearNumber(row.year) < range.start \/ YearNumber(row.year) > range.end)
                /\ recency # "all" =>
                       /\ timestamp # JsNull /\ timestamp.n # 0
                       /\ ~(Trunc(timestamp.n) < now - days * 24)
                /\ ~(genre # "all" /\ row.genre # genre))

(***************************************************************************)
(* context/PlaylistContext: the queue and the player.  A video is its id;  *)
(* indices count from 0 as in the source, queue[i + 1] is the item at      *)
(* index i.                                                                *)
(***************************************************************************)
Video(id) == [id |-> id]
\* nowPlaying === null
NullVideo == [id |-> "null"]
\* { type: 'single' } (the index field is not read for this type)
Single == [type |-> "single", index |-> 0]
\* { type: 'queue', index }
QueueAt(index) == [type |-> "queue", index |-> index]

moveItem(arr, fromIndex, toIndex) ==
    LET from == Max(0, Min(Len(arr) - 1, fromIndex))
        to == Max(0, Min(Len(arr) - 1, toIndex))
        without == SubSeq(arr, 1, from) \o SubSeq(arr, from + 2, Len(arr))
    IN IF from = to THEN arr
       ELSE SubSeq(without, 1, to) \o <<arr[from + 1]>> \o SubSeq(without, to + 1, Len(without))

\* arr.findIndex((item) => item.id === id)
FindIndex(arr, id) ==
    LET at == {i \in 1..Len(arr) : arr[i].id = id}
    IN IF at = {} THEN 0 - 1 ELSE (CHOOSE i \in at : \A j \in at : i <= j) - 1

\* variant: the effect leaves nowPlaying and playerSource as they are
EffectOutcomeNoSync(q, source, playing) ==
    [nowPlaying |-> playing, playerSource |-> source, rerun |-> FALSE]

\* the queue effect for the committed queue `q`, playerSource `source` and
\* nowPlaying `playing`: what it leaves in nowPlaying and playerSource, and
\* whether it set playerSource, which makes it run again
EffectOutcome(q, source, playing) ==
    IF source.type # "queue"
    THEN [nowPlaying |-> playing, playerSource |-> source, rerun |-> FALSE]
    ELSE IF Len(q) = 0
    THEN [nowPlaying |-> NullVideo, playerSource |-> Single, rerun |-> TRUE]
    ELSE LET idx == Max(0, Min(Len(q) - 1, source.index))
         IN [nowPlaying |-> q[idx + 1],
             playerSource |-> IF idx # source.index THEN QueueAt(idx) ELSE source,
             rerun |-> idx # source.index]

\* variant: the ended video's successor is skipped
EndedOutcomeSkipping(q, prev) ==
    IF prev.type # "queue" THEN [nowPlaying |-> NullVideo, playerSource |-> Single]
    ELSE IF prev.index + 2 >= Len(q) THEN [nowPlaying |-> NullVideo, playerSource |-> Single]
    ELSE [nowPlaying |-> q[prev.index + 3], playerSource |-> QueueAt(prev.index + 2)]

\* the updater of onPlayerEnded for the queue `q` and the playerSource `prev`
EndedOutcome(q, prev) ==
    IF prev.type # "queue" THEN [nowPlaying |-> NullVideo, playerSource |-> Single]
    ELSE IF prev.index + 1 >= Len(q) THEN [nowPlaying |-> NullVideo, playerSource |-> Single]
    ELSE [nowPlaying |-> q[prev.index + 2], playerSource |-> QueueAt(prev.index + 1)]


(***************************************************************************)
(* Bounds and input alphabets                                              *)
(***************************************************************************)
MaxTenths == 350          \* tier classifier arguments reach 35.0 plays
MaxIdItems == 3           \* batch length when ids and paths vary
MaxTierItems == 1         \* batch length when playcount and tier vary
MaxFilterItems == 3       \* library size when decade and tier filters vary
MaxActivePills == 1       \* pills active at once, per filter
MaxSortItems == 3         \* library size when the sort mode varies
MaxBreakdownItems == 1    \* batch length when the retention breakdown varies
MaxHistoryItems == 1      \* library size when the history document varies
MaxRetentionItems == 1    \* batch size when the retention fields vary
MaxPathLen == 4           \* elements of a path handed to normalizeVideoPath
MaxQueryTokens == 2       \* whitespace-separated tokens of a typed search string
MaxSearchItems == 2       \* library size when the search string varies
MaxRecencyItems == 1      \* library size when the timestamps vary

MaxLoadItems == 1         \* batch length of the index a load answers with

MaxFrameItems == 2        \* library size when search, pills and sort all vary

MaxAccentItems == 2       \* library size when the titles carry accents

MaxQueue == 4             \* queue length
MaxMany == 2              \* videos handed to addManyToQueue or replaceQueue at once


MaxSongs == 2             \* perSong entries of a history document
MaxPool == 3              \* sampler pool size
MaxCount == 3             \* sampler count
RandomSteps == 2          \* distinct outcomes of one Math.random() draw

\* all sequences over S of length at most n
SeqsUpTo(S, n) == UNION {[1..k -> S] : k \in 0..n}

PathA == <<"/", "Users", "/", "VIDEO", "/", "a", ".", "mp4">>
PathB == <<"/", "Users", "/", "VIDEO", "/", "b", ".", "mp4">>
PathNested == <<"D:", "/", "VIDEO", "/", "x", "\\", "a", ".", "mp4">>
PathNoMarker == <<"/", "Users", "/", "a", ".", "mp4">>
PathBackslash == <<"D:", "\\", "VIDEO", "\\", "a", ".", "mp4">>
PathLower == <<"/", "Users", "/", "video", "/", "a", ".", "mp4">>

IdleClassifier == playcountArg = JsUndef /\ tierResult = "pending"
IdleLibrary ==
    /\ items = <<>> /\ rows = <<>> /\ loaded = FALSE
IdleFilters ==
    /\ activeDecades = {} /\ activeTiers = {} /\ sortMode = "plays"
    /\ activeSpinYear = JsNull /\ activeYearDigits = {} /\ retentionFilter = "all"
    /\ search = <<>> /\ newnessMode = "all" /\ nowMs = 0
IdlePath ==
    /\ pathArg = <<>> /\ pathDone = FALSE
    /\ pathResult = [relativePath |-> JsNull, absolutePath |-> JsNull]
\* the options SetBuilder hands to useConcentricRings, and selectedGenre
IdleRings ==
    /\ selectedYear = 1980 /\ selectedSpan = 5 /\ selectedEraId = "none"
    /\ selectedTier = "mixed" /\ selectedCount = 20 /\ selectedRecency = "all"
    /\ selectedGenre = "all"
\* VideoLibrary before its load effect has run, and the network's answer
NoResponse == [kind |-> "none"]
IdleLoad ==
    /\ loading = TRUE /\ error = JsNull /\ cancelled = FALSE /\ loadPc = "idle"
    /\ response = NoResponse
\* PlaylistProvider with an empty stored queue
NoOp == [name |-> "none", before |-> NullVideo, source |-> Single, id |-> ""]
IdlePlaylist ==
    /\ queue = <<>> /\ nowPlaying = NullVideo /\ playerSource = Single
    /\ effectPending = FALSE /\ lastOp = NoOp
IdleHistory == perSong = <<>> /\ historyWeights = <<>> /\ historyLoaded = FALSE
IdleSampler ==
    /\ pool = <<>> /\ count = 0 /\ available = <<>> /\ picks = <<>>
    /\ preview = <<>> /\ pickPc = "idle"

classifierVars == <<playcountArg, tierResult>>
libraryVars == <<items, rows, loaded>>
filterVars == <<activeDecades, activeTiers, sortMode, activeSpinYear, activeYearDigits,
                retentionFilter, search, newnessMode, nowMs>>
pathVars == <<pathArg, pathResult, pathDone>>
ringVars == <<selectedYear, selectedSpan, selectedEraId, selectedTier, selectedCount,
              selectedRecency, selectedGenre>>
historyVars == <<perSong, historyWeights, historyLoaded>>
samplerVars == <<pool, count, available, picks, preview, pickPc>>
loadVars == <<loading, error, cancelled, loadPc, response>>
playlistVars == <<queue, nowPlaying, playerSource, effectPending, lastOp>>

(***************************************************************************)
(* Actions                                                                 *)
(***************************************************************************)
\* a call of tierFromPlaycount
Classify ==
    /\ tierResult = "pending"
    /\ tierResult' = tierFromPlaycount(playcountArg)
    /\ UNCHANGED <<playcountArg, libraryVars, filterVars, historyVars, samplerVars,
                   pathVars, ringVars, loadVars, playlistVars>>

\* a call of normalizeVideoPath
NormalizePath ==
    /\ ~pathDone
    /\ pathResult' = normalizeVideoPath(pathArg)
    /\ pathDone' = TRUE
    /\ UNCHANGED <<pathArg, classifierVars, libraryVars, filterVars, historyVars, samplerVars,
                   ringVars, loadVars, playlistVars>>

\* the render of VideoLibrary that follows a commit holding the array `rws` in
\* `rows`: the useMemo runs against the new filter state
RenderLibrary(rws) == rows' = MemoReceiver(rws, sortMode')

\* the load effect, not superseded and the fetch succeeding:
\* setRows(await loadVideoIndex())
LoadIndex ==
    /\ ~loaded
    /\ loaded' = TRUE
    /\ loading' = FALSE
    /\ UNCHANGED <<items, classifierVars, filterVars, historyVars, samplerVars, pathVars,
                   ringVars, error, cancelled, loadPc, response, playlistVars>>
    /\ RenderLibrary(parseVideoIndexRows(items))

\* variant: the settled request writes the state whatever the flag says
IfNotCancelledIgnored(flag, next, current) == next

\* `if (!cancelled) set...(next)` of the load effect
IfNotCancelled(flag, next, current) == IF ~flag THEN next ELSE current

\* the load effect at mount: run() up to its await
StartLoad ==
    /\ loadPc = "idle"
    /\ cancelled' = FALSE
    /\ loading' = TRUE
    /\ error' = JsNull
    /\ loadPc' = "fetching"
    /\ UNCHANGED <<response, classifierVars, libraryVars, filterVars, historyVars,
                   samplerVars, pathVars, ringVars, playlistVars>>

\* the load effect's cleanup at unmount
Unmount ==
    /\ loadPc # "idle" /\ ~cancelled
    /\ cancelled' = TRUE
    /\ UNCHANGED <<loading, error, loadPc, response, classifierVars, libraryVars, filterVars,
                   historyVars, samplerVars, pathVars, ringVars, playlistVars>>

\* run() from the settled await to its end: try, catch and finally
SettleLoad ==
    /\ loadPc = "fetching"
    /\ LET outcome == loadVideoIndex(response, items)
       IN /\ loaded' = IF outcome.threw THEN loaded ELSE IfNotCancelled(cancelled, TRUE, loaded)
          /\ error' = IF outcome.threw
                      THEN IfNotCancelled(cancelled,
                                          JsStr(IF outcome.message # <<>> THEN outcome.message
                                                ELSE <<"Load error">>),
                                          error)
                      ELSE error
    /\ loading' = IfNotCancelled(cancelled, FALSE, loading)
    /\ loadPc' = "done"
    /\ UNCHANGED <<items, cancelled, response, classifierVars, filterVars, historyVars,
                   samplerVars, pathVars, ringVars, playlistVars>>
    /\ LET outcome == loadVideoIndex(response, items)
       IN RenderLibrary(IF outcome.threw THEN rows
                        ELSE IfNotCancelled(cancelled, outcome.rows, rows))

\* onRandomizerToggleDecade (spinFallbackDecade and fallbackRows, which only a
\* randomizer spin sets, stay null)
ToggleDecade(pill) ==
    /\ pill \in activeDecades \/ Cardinality(activeDecades) < MaxActivePills
    /\ activeSpinYear' = JsNull
    /\ activeDecades' = IF pill \in activeDecades THEN activeDecades \ {pill}
                        ELSE activeDecades \cup {pill}
    /\ UNCHANGED <<activeTiers, sortMode, activeYearDigits, retentionFilter, search,
                   newnessMode, nowMs,
                   classifierVars, items, loaded, historyVars, samplerVars, pathVars, ringVars, loadVars, playlistVars>>
    /\ RenderLibrary(rows)

\* onRandomizerToggleTier
ToggleTier(tier) ==
    /\ tier \in activeTiers \/ Cardinality(activeTiers) < MaxActivePills
    /\ activeSpinYear' = JsNull
    /\ activeTiers' = IF tier \in activeTiers THEN activeTiers \ {tier}
                      ELSE activeTiers \cup {tier}
    /\ UNCHANGED <<activeDecades, sortMode, activeYearDigits, retentionFilter, search,
                   newnessMode, nowMs,
                   classifierVars, items, loaded, historyVars, samplerVars, pathVars, ringVars, loadVars, playlistVars>>
    /\ RenderLibrary(rows)

\* cycleSortMode
CycleSortMode ==
    /\ sortMode' = LET currentIndex == CHOOSE i \in 1..Len(SORT_CYCLE) : SORT_CYCLE[i] = sortMode
                   IN SORT_CYCLE[(currentIndex % Len(SORT_CYCLE)) + 1]
    /\ UNCHANGED <<activeDecades, activeTiers, activeSpinYear, activeYearDigits,
                   retentionFilter, search, newnessMode, nowMs, classifierVars, items, loaded, historyVars, samplerVars, pathVars, ringVars, loadVars, playlistVars>>
    /\ RenderLibrary(rows)

\* the search input's onChange: setSearch(event.target.value)
SetSearch(value) ==
    /\ search' = value
    /\ UNCHANGED <<activeDecades, activeTiers, sortMode, activeSpinYear, activeYearDigits,
                   retentionFilter, newnessMode, nowMs, classifierVars, items, loaded,
                   historyVars, samplerVars, pathVars, ringVars, loadVars, playlistVars>>
    /\ RenderLibrary(rows)

\* the mount effect that restores the persisted filter state; `data` is the
\* parsed payload: search is a string or undefined, sortMode, newnessMode and
\* retentionFilter are words ("" when missing), the three lists are arrays
\* (isArray) or missing, activeSpinYear is any value.  It runs before the index
\* load can complete.
RestoreFilters(data) ==
    /\ ~loaded
    /\ search' = IF data.search.t = "str" THEN data.search.s ELSE search
    /\ sortMode' = IF data.sortMode \in SeqRange(SORT_CYCLE) THEN data.sortMode ELSE sortMode
    /\ newnessMode' = IF data.newnessMode \in SeqRange(NEWNESS_FILTERS) THEN data.newnessMode
                      ELSE newnessMode
    /\ activeDecades' = IF data.activeDecades.isArray
                        THEN SeqRange(data.activeDecades.list) \cap SeqRange(DECADE_PILLS)
                        ELSE activeDecades
    /\ activeTiers' = IF data.activeTiers.isArray
                      THEN SeqRange(data.activeTiers.list) \cap SeqRange(TIER_FILTERS)
                      ELSE activeTiers
    /\ activeYearDigits' = IF data.activeYearDigits.isArray
                           THEN SeqRange(data.activeYearDigits.list) \cap 0..9
                           ELSE activeYearDigits
    /\ activeSpinYear' = IF data.activeSpinYear.t = "num" /\ data.activeSpinYear.n % 10 = 0
                         THEN data.activeSpinYear ELSE activeSpinYear
    /\ retentionFilter' = IF data.retentionFilter \in SeqRange(RETENTION_FILTERS)
                          THEN data.retentionFilter ELSE retentionFilter
    /\ UNCHANGED <<nowMs, classifierVars, items, loaded, historyVars, samplerVars, pathVars,
                   ringVars, loadVars, playlistVars>>
    /\ RenderLibrary(rows)

\* clearAllFilters (spinFallbackDecade and fallbackRows, which only a
\* randomizer spin sets, stay null)
clearAllFilters ==
    /\ search' = <<>>
    /\ sortMode' = "plays"
    /\ activeDecades' = {}
    /\ activeTiers' = {}
    /\ activeYearDigits' = {}
    /\ activeSpinYear' = JsNull
    /\ retentionFilter' = "all"
    /\ newnessMode' = "all"
    /\ UNCHANGED <<nowMs, items, loaded, classifierVars, historyVars, samplerVars, pathVars,
                   ringVars, loadVars, playlistVars>>
    /\ RenderLibrary(rows)

\* the useMemo `filtered` of SetBuilder in the current state
filtered ==
    SetBuilderFiltered(rows, effectiveRange(selectedYear, selectedSpan, selectedEraId),
                       tierSelectionToIds(selectedTier), selectedRecency, nowMs,
                       selectedGenre)

\* the preview effect after a render of SetBuilder with rows `rws` and ring
\* selection (year, span, eraId): weightedPick is entered with the new
\* `filtered` and clamp(selectedCount, 1, 50)
EnterPreview(rws, year, span, eraId) ==
    LET candidates == SetBuilderFiltered(rws, effectiveRange(year, span, eraId),
                                       tierSelectionToIds(selectedTier), selectedRecency,
                                       nowMs, selectedGenre)
    IN /\ pool' = candidates
       /\ count' = clamp(selectedCount, 1, 50)
       /\ available' = candidates
       /\ picks' = <<>>
       /\ pickPc' = "loop"
       /\ UNCHANGED preview

\* the SetBuilder load effect, not cancelled and the fetch succeeding:
\* setRows(data), then the render and its preview effect
LoadSetBuilder ==
    /\ ~loaded /\ pickPc # "loop"
    /\ rows' = parseVideoIndexRows(items)
    /\ loaded' = TRUE
    /\ EnterPreview(rows', selectedYear, selectedSpan, selectedEraId)
    /\ UNCHANGED <<items, classifierVars, filterVars, historyVars, pathVars, ringVars, loadVars, playlistVars>>

\* the year ring's pointer handler: rings.setSelectedYear(snappedYear)
SetSelectedYear(year) ==
    /\ pickPc # "loop"
    /\ selectedYear' = year
    /\ EnterPreview(rows, year, selectedSpan, selectedEraId)
    /\ UNCHANGED <<selectedSpan, selectedEraId, selectedTier, selectedCount, selectedRecency,
                   selectedGenre, classifierVars, libraryVars, filterVars, historyVars,
                   pathVars, loadVars, playlistVars>>

\* a span button: rings.setSelectedSpan(span)
SetSelectedSpan(span) ==
    /\ pickPc # "loop"
    /\ selectedSpan' = span
    /\ EnterPreview(rows, selectedYear, span, selectedEraId)
    /\ UNCHANGED <<selectedYear, selectedEraId, selectedTier, selectedCount, selectedRecency,
                   selectedGenre, classifierVars, libraryVars, filterVars, historyVars,
                   pathVars, loadVars, playlistVars>>

\* an era button: rings.setSelectedEraId(era.id)
SetSelectedEraId(eraId) ==
    /\ pickPc # "loop"
    /\ selectedEraId' = eraId
    /\ EnterPreview(rows, selectedYear, selectedSpan, eraId)
    /\ UNCHANGED <<selectedYear, selectedSpan, selectedTier, selectedCount, selectedRecency,
                   selectedGenre, classifierVars, libraryVars, filterVars, historyVars,
                   pathVars, loadVars, playlistVars>>

\* the history effect, the fetch succeeding: setHistoryWeights(weights)
LoadHistory ==
    /\ ~historyLoaded
    /\ historyWeights' = AggregateHistory(perSong)
    /\ historyLoaded' = TRUE
    /\ UNCHANGED <<perSong, classifierVars, libraryVars, filterVars, samplerVars, pathVars, ringVars, loadVars, playlistVars>>

\* weightedPick is entered: available = [...items], picks = []
PickEnter ==
    /\ pickPc = "idle"
    /\ available' = pool
    /\ picks' = <<>>
    /\ pickPc' = "loop"
    /\ UNCHANGED <<pool, count, preview, classifierVars, libraryVars, filterVars, historyVars,
                   pathVars, ringVars, loadVars, playlistVars>>

\* one turn of the while loop
PickIterate ==
    /\ pickPc = "loop"
    /\ Len(available) > 0 /\ Len(picks) < count
    /\ \E draws \in [1..Len(available) -> 0..(RandomSteps - 1)], spin \in 0..(RandomSteps - 1) :
          LET weights == [i \in 1..Len(available) |->
                             ItemWeight(available[i], PreviewIntensity, historyWeights,
                                        draws[i], RandomSteps)]
              total == SumSeq(weights)
              cursor == (spin * total) \div RandomSteps
              selected == SelectedIndex(weights, cursor)
          IN /\ picks' = Append(picks, available[selected + 1])
             /\ available' = Splice(available, selected)
    /\ UNCHANGED <<pool, count, preview, pickPc, classifierVars, libraryVars, filterVars,
                   historyVars, pathVars, ringVars, loadVars, playlistVars>>

\* the loop is left: return picks, and the preview effect stores it
PickReturn ==
    /\ pickPc = "loop"
    /\ ~(Len(available) > 0 /\ Len(picks) < count)
    /\ preview' = picks
    /\ pickPc' = "done"
    /\ UNCHANGED <<pool, count, available, picks, classifierVars, libraryVars, filterVars,
                   historyVars, pathVars, ringVars, loadVars, playlistVars>>

\* what an operation of the playlist context records when it is called
Op(name, id) == [name |-> name, before |-> nowPlaying, source |-> playerSource, id |-> id]

\* the state PlaylistProvider does not hold
notPlaylist == <<classifierVars, libraryVars, filterVars, historyVars, samplerVars, pathVars,
                 ringVars, loadVars>>

\* the queue effect, run after a commit that changed queue or playerSource
QueueEffect ==
    /\ effectPending
    /\ LET outcome == EffectOutcome(queue, playerSource, nowPlaying)
       IN /\ nowPlaying' = outcome.nowPlaying
          /\ playerSource' = outcome.playerSource
          /\ effectPending' = outcome.rerun
    /\ UNCHANGED <<queue, lastOp, notPlaylist>>

addToQueue(video) ==
    /\ ~effectPending /\ Len(queue) < MaxQueue
    /\ queue' = Append(queue, video)
    /\ effectPending' = TRUE
    /\ lastOp' = Op("addToQueue", video.id)
    /\ UNCHANGED <<nowPlaying, playerSource, notPlaylist>>

addManyToQueue(videos) ==
    /\ ~effectPending /\ Len(queue) + Len(videos) <= MaxQueue
    /\ queue' = queue \o videos
    /\ effectPending' = TRUE
    /\ lastOp' = Op("addManyToQueue", "")
    /\ UNCHANGED <<nowPlaying, playerSource, notPlaylist>>

replaceQueue(videos) ==
    /\ ~effectPending
    /\ queue' = videos
    /\ IF Len(videos) = 0
       THEN nowPlaying' = NullVideo /\ playerSource' = Single
       ELSE UNCHANGED <<nowPlaying, playerSource>>
    /\ effectPending' = TRUE
    /\ lastOp' = Op("replaceQueue", "")
    /\ UNCHANGED notPlaylist

removeFromQueue(id) ==
    /\ ~effectPending
    /\ LET idx == FindIndex(queue, id)
       IN IF idx = 0 - 1
          THEN UNCHANGED <<queue, nowPlaying, playerSource, effectPending>>
          ELSE /\ queue' = SelectSeq(queue, LAMBDA item : item.id # id)
               /\ playerSource' =
                      IF playerSource.type # "queue" THEN playerSource
                      ELSE IF idx < playerSource.index THEN QueueAt(playerSource.index - 1)
                      ELSE IF idx = playerSource.index /\ Len(queue) - 1 = 0 THEN Single
                      ELSE playerSource
               /\ nowPlaying' =
                      IF /\ playerSource.type = "queue" /\ idx = playerSource.index
                         /\ Len(queue) - 1 = 0
                      THEN NullVideo ELSE nowPlaying
               /\ effectPending' = TRUE
    /\ lastOp' = Op("removeFromQueue", id)
    /\ UNCHANGED notPlaylist

clearQueue ==
    /\ ~effectPending
    /\ queue' = <<>>
    /\ nowPlaying' = NullVideo
    /\ playerSource' = Single
    /\ effectPending' = TRUE
    /\ lastOp' = Op("clearQueue", "")
    /\ UNCHANGED notPlaylist

reorderQueue(fromIndex, toIndex) ==
    /\ ~effectPending
    /\ IF Len(queue) < 2
       THEN UNCHANGED <<queue, playerSource, effectPending>>
       ELSE /\ queue' = moveItem(queue, fromIndex, toIndex)
            /\ playerSource' =
                   IF playerSource.type # "queue" THEN playerSource
                   ELSE IF fromIndex = playerSource.index THEN QueueAt(toIndex)
                   ELSE IF fromIndex < playerSource.index /\ toIndex >= playerSource.index
                   THEN QueueAt(playerSource.index - 1)
                   ELSE IF fromIndex > playerSource.index /\ toIndex <= playerSource.index
                   THEN QueueAt(playerSource.index + 1)
                   ELSE playerSource
            /\ effectPending' = TRUE
    /\ lastOp' = Op("reorderQueue", "")
    /\ UNCHANGED <<nowPlaying, notPlaylist>>

moveQueueItemTop(id) ==
    /\ ~effectPending
    /\ LET fromIndex == FindIndex(queue, id)
       IN IF fromIndex <= 0
          THEN UNCHANGED <<queue, effectPending>>
          ELSE queue' = moveItem(queue, fromIndex, 0) /\ effectPending' = TRUE
    /\ lastOp' = Op("moveQueueItemTop", id)
    /\ UNCHANGED <<nowPlaying, playerSource, notPlaylist>>

moveQueueItemBottom(id) ==
    /\ ~effectPending
    /\ LET fromIndex == FindIndex(queue, id)
       IN IF fromIndex = 0 - 1 \/ fromIndex = Len(queue) - 1
          THEN UNCHANGED <<queue, effectPending>>
          ELSE queue' = moveItem(queue, fromIndex, Len(queue) - 1) /\ effectPending' = TRUE
    /\ lastOp' = Op("moveQueueItemBottom", id)
    /\ UNCHANGED <<nowPlaying, playerSource, notPlaylist>>

\* openPlayer(video, { preferQueue })
openPlayer(video, preferQueue) ==
    /\ ~effectPending
    /\ LET index == FindIndex(queue, video.id)
       IN IF preferQueue /\ Len(queue) > 0 /\ index # 0 - 1
          THEN playerSource' = QueueAt(index) /\ nowPlaying' = queue[index + 1]
          ELSE playerSource' = Single /\ nowPlaying' = video
    /\ effectPending' = TRUE
    /\ lastOp' = Op("openPlayer", video.id)
    /\ UNCHANGED <<queue, notPlaylist>>

closePlayer ==
    /\ ~effectPending
    /\ nowPlaying' = NullVideo
    /\ playerSource' = Single
    /\ effectPending' = TRUE
    /\ lastOp' = Op("closePlayer", "")
    /\ UNCHANGED <<queue, notPlaylist>>

\* the ended event of the player's video element, which exists while a video
\* is playing
onPlayerEnded ==
    /\ ~effectPending /\ nowPlaying # NullVideo
    /\ LET outcome == EndedOutcome(queue, playerSource)
       IN nowPlaying' = outcome.nowPlaying /\ playerSource' = outcome.playerSource
    /\ effectPending' = TRUE
    /\ lastOp' = Op("onPlayerEnded", "")
    /\ UNCHANGED <<queue, notPlaylist>>


(***************************************************************************)
(* Specifications                                                          *)
(***************************************************************************)
\* tierFromPlaycount over finite and non-finite arguments
TierArgs == {JsTenths(x) : x \in (0 - 20)..MaxTenths} \cup {JsNaN, JsPosInf, JsNegInf}

InitTier ==
    /\ playcountArg \in TierArgs
    /\ tierResult = "pending"
    /\ IdleLibrary /\ IdleFilters /\ IdleHistory /\ IdleSampler /\ IdlePath /\ IdleRings
    /\ IdleLoad /\ IdlePlaylist

NextTier == Classify

SpecTier == InitTier /\ [][NextTier]_vars

\* the normalizer over batches whose paths and upstream ids vary
IdItems ==
    {[BlankItem EXCEPT !.filePath = p[1], !.filepath = p[2], !.videoId = v] :
        p \in {<<JsStr(PathA), JsUndef>>, <<JsStr(PathB), JsUndef>>,
               <<JsStr(PathNoMarker), JsUndef>>, <<JsStr(PathBackslash), JsUndef>>,
               <<JsUndef, JsStr(PathA)>>, <<JsUndef, JsUndef>>},
        v \in {JsUndef, JsStr(<<"a">>), JsStr(<<"a", "#", "1">>)}}

InitIds ==
    /\ items \in SeqsUpTo(IdItems, MaxIdItems)
    /\ rows = <<>> /\ loaded = FALSE
    /\ IdleClassifier /\ IdleFilters /\ IdleHistory /\ IdleSampler /\ IdlePath /\ IdleRings
    /\ IdleLoad /\ IdlePlaylist

NextIds == LoadIndex

SpecIds == InitIds /\ [][NextIds]_vars

\* the normalizer over batches whose playcount fields and upstream tier vary
TierItems ==
    {[BlankItem EXCEPT !.filePath = JsStr(PathA), !.playcount = pc, !.playCount = pc2,
                       !.tier = t] :
        pc \in {JsUndef, JsNull, JsNaN, JsPosInf, JsInt(0 - 3), JsInt(0), JsInt(1), JsTenths(19),
                JsInt(2), JsInt(7), JsInt(8), JsInt(15), JsInt(16), JsInt(29), JsInt(30),
                JsStr(<<"1", "2">>), JsStr(<<"x">>), JsStr(<<>>)},
        pc2 \in {JsUndef, JsInt(40)},
        t \in {JsUndef, JsNull, JsStr(<<"Power">>), JsStr(<<" ", "heavy">>),
               JsStr(<<"Promo">>), JsStr(<<"bogus">>), JsInt(3)}}

InitTierItems ==
    /\ items \in SeqsUpTo(TierItems, MaxTierItems)
    /\ rows = <<>> /\ loaded = FALSE
    /\ IdleClassifier /\ IdleFilters /\ IdleHistory /\ IdleSampler /\ IdlePath /\ IdleRings
    /\ IdleLoad /\ IdlePlaylist

SpecTierItems == InitTierItems /\ [][NextIds]_vars

\* the normalizer over batches whose retention breakdown varies: every sub-score
\* numeric, or one sub-score replaced, or no object at all
NumericBreakdown == [t |-> "object", o |-> [k \in BreakdownKeySet |-> JsInt(1)]]
OddScores == {JsUndef, JsNull, JsTrue, JsFalse, JsStr(<<>>), JsStr(<<"7">>), JsStr(<<"x">>),
              JsNaN, JsPosInf, JsTenths(25)}
Breakdowns ==
    {NumericBreakdown}
    \cup {[NumericBreakdown EXCEPT !.o[k] = v] : k \in BreakdownKeySet, v \in OddScores}
    \cup {[t |-> kind, o |-> [k \in BreakdownKeySet |-> JsUndef]] :
            kind \in {"undefined", "null", "array"}}
BreakdownItems ==
    {[BlankItem EXCEPT !.filePath = JsStr(PathA), !.retentionBreakdown = b] : b \in Breakdowns}
    \cup {[BlankItem EXCEPT !.filePath = JsStr(PathA), !.retention_breakdown = b] :
            b \in Breakdowns}

InitBreakdown ==
    /\ items \in SeqsUpTo(BreakdownItems, MaxBreakdownItems)
    /\ rows = <<>> /\ loaded = FALSE
    /\ IdleClassifier /\ IdleFilters /\ IdleHistory /\ IdleSampler /\ IdlePath /\ IdleRings
    /\ IdleLoad /\ IdlePlaylist

SpecBreakdown == InitBreakdown /\ [][NextIds]_vars

\* the library view over a loaded index, decade pills and tier pills toggled
FilterItems ==
    {[BlankItem EXCEPT !.filePath = JsStr(PathA), !.videoId = v, !.year = y, !.playcount = pc] :
        v \in {JsStr(<<"a">>), JsStr(<<"a", "#", "1">>)},
        y \in {JsUndef, JsInt(1985), JsInt(2015), JsInt(2020)},
        pc \in {JsInt(0), JsInt(30)}}

InitFilter ==
    /\ items \in SeqsUpTo(FilterItems, MaxFilterItems)
    /\ rows = <<>> /\ loaded = FALSE
    /\ IdleClassifier /\ IdleFilters /\ IdleHistory /\ IdleSampler /\ IdlePath /\ IdleRings
    /\ IdleLoad /\ IdlePlaylist

NextFilter ==
    \/ LoadIndex
    \/ \E pill \in SeqRange(DECADE_PILLS) : ToggleDecade(pill)
    \/ \E tier \in SeqRange(TIER_FILTERS) : ToggleTier(tier)

SpecFilter == InitFilter /\ [][NextFilter]_vars

\* the library view over a loaded index, the sort mode cycled
SortItems ==
    {[BlankItem EXCEPT !.filePath = JsStr(PathA), !.year = y, !.playcount = pc, !.title = t,
                       !.artist = a] :
        y \in {JsUndef, JsInt(0 - 2), JsInt(1985)},
        pc \in {JsInt(5), JsInt(10)},
        t \in {JsStr(<<"A">>), JsStr(<<"B">>)},
        a \in {JsUndef, JsStr(<<"B">>)}}

InitSort ==
    /\ items \in SeqsUpTo(SortItems, MaxSortItems)
    /\ rows = <<>> /\ loaded = FALSE
    /\ IdleClassifier /\ IdleFilters /\ IdleHistory /\ IdleSampler /\ IdlePath /\ IdleRings
    /\ IdleLoad /\ IdlePlaylist

NextSort == LoadIndex \/ CycleSortMode

SpecSort == InitSort /\ [][NextSort]_vars

\* normalizeVideoPath over every short string of separators, marker words and
\* a name
PathAlphabet == {"/", "\\", "VIDEO", "video", "a"}
PathInputs == SeqsUpTo(PathAlphabet, MaxPathLen)

InitPath ==
    /\ pathArg \in PathInputs
    /\ pathDone = FALSE
    /\ pathResult = [relativePath |-> JsNull, absolutePath |-> JsNull]
    /\ IdleClassifier /\ IdleLibrary /\ IdleFilters /\ IdleHistory /\ IdleSampler /\ IdleRings
    /\ IdleLoad /\ IdlePlaylist

NextPath == NormalizePath

SpecPath == InitPath /\ [][NextPath]_vars

\* parseSearch over typed strings of range-shaped and other tokens
RangeParts == {<<"7", "5">>, <<"1", "0">>, <<"1", "9", "8">>, <<"1", "9", "7", "5">>,
               <<"2", "0", "0", "5">>}
RangeTokens ==
    {l \o <<"-">> \o r : l \in RangeParts, r \in RangeParts}
        \cup {<<"1", "9", "7", "5">> \o <<d>> \o r : d \in {"endash", "emdash"}, r \in RangeParts}
        \cup {<<"2", "0", "0", "5", "endash", "1", "0">>}
OtherTokens == {<<"1", "9", "8", "0">>, <<"8", "0">>, <<"q", "u">>, <<"Q">>,
                <<"(", "7", "5", "-", "8", "3", ")">>, <<"7", "5", "-">>,
                <<"7", "-", "8", "3">>, <<"1", "9", "7", "5", "5", "-", "8", "3">>,
                <<"7", "5", "-", "-", "8", "3">>, <<"7", "5", "-", "8", "3", "-", "9", "0">>}
QueryTokens == RangeTokens \cup OtherTokens

InitParse ==
    /\ IdleClassifier /\ IdleLibrary /\ IdleFilters /\ IdleHistory /\ IdleSampler
    /\ IdlePath /\ IdleRings
    /\ IdleLoad /\ IdlePlaylist

\* the user types one more token, or empties the input
NextParse ==
    \/ \E token \in QueryTokens :
          /\ Len(Words(search)) < MaxQueryTokens
          /\ SetSearch(IF search = <<>> THEN token ELSE search \o <<" ">> \o token)
    \/ (search # <<>> /\ SetSearch(<<>>))

SpecParse == InitParse /\ [][NextParse]_vars

\* the library view searched by year tokens
SearchItems ==
    {[BlankItem EXCEPT !.filePath = JsStr(PathA), !.year = y] :
        y \in {JsUndef, JsInt(1975), JsInt(1980), JsInt(1983), JsInt(1990)}}
YearQueryTokens == {<<"1", "9", "8", "0">>, <<"1", "9", "8", "1">>, <<"1", "9", "9", "0">>,
                    <<"7", "5", "-", "8", "3">>, <<"8", "0", "-", "9", "0">>,
                    <<"1", "9", "9", "0", "-", "9", "9">>, <<"1", "9", "8", "3", "-", "7", "5">>}

InitYearSearch ==
    /\ items \in SeqsUpTo(SearchItems, MaxSearchItems)
    /\ rows = <<>> /\ loaded = FALSE
    /\ IdleClassifier /\ IdleFilters /\ IdleHistory /\ IdleSampler /\ IdlePath /\ IdleRings
    /\ IdleLoad /\ IdlePlaylist

NextYearSearch ==
    \/ LoadIndex
    \/ \E token \in YearQueryTokens :
          /\ Len(Words(search)) < MaxQueryTokens
          /\ SetSearch(IF search = <<>> THEN token ELSE search \o <<" ">> \o token)
    \/ (search # <<>> /\ SetSearch(<<>>))

SpecYearSearch == InitYearSearch /\ [][NextYearSearch]_vars

\* the library view under a recency window.  Date.now() is one of two instants
\* of 2025; the timestamps lie on and around the three cutoffs.
NowValues == {DaysFromCivil(2025, 1, 1) * 24, DaysFromCivil(2025, 6, 30) * 24 + 12}
NewYear2025 == DaysFromCivil(2025, 1, 1) * 24
FirstSeenValues ==
    {JsUndef, JsNull, JsInt(0), JsStr(<<"x">>), JsInt(482),
     JsInt(NewYear2025), JsInt(NewYear2025 - 30 * 24), JsInt(NewYear2025 - 30 * 24 - 1),
     JsInt(NewYear2025 - 90 * 24), JsInt(NewYear2025 - 365 * 24 - 1)}
AddedAtValues ==
    {JsUndef, JsStr(<<"x">>),
     JsStr(<<"2", "0", "2", "4", "-", "1", "2", "-", "1", "5">>),
     JsStr(<<"2", "0", "2", "4", "-", "1", "2", "-", "0", "2">>),
     JsStr(<<"2", "0", "2", "4", "-", "0", "6", "-", "0", "1">>),
     JsStr(<<"2", "0", "2", "3", "-", "0", "1", "-", "0", "1">>)}
RecencyItems ==
    {[BlankItem EXCEPT !.filePath = JsStr(PathA), !.firstSeen = f, !.addedAt = a] :
        f \in FirstSeenValues, a \in AddedAtValues}

\* persisted payloads that carry a recency window and nothing else
NoPayload ==
    [search |-> JsUndef, sortMode |-> "", newnessMode |-> "",
     activeDecades |-> [isArray |-> FALSE, list |-> <<>>],
     activeTiers |-> [isArray |-> FALSE, list |-> <<>>],
     activeYearDigits |-> [isArray |-> FALSE, list |-> <<>>],
     activeSpinYear |-> JsUndef, retentionFilter |-> ""]
RecencyPayloads ==
    {[NoPayload EXCEPT !.newnessMode = mode] : mode \in SeqRange(NEWNESS_FILTERS) \cup {"7d"}}

InitRecency ==
    /\ items \in SeqsUpTo(RecencyItems, MaxRecencyItems)
    /\ rows = <<>> /\ loaded = FALSE
    /\ activeDecades = {} /\ activeTiers = {} /\ sortMode = "plays"
    /\ activeSpinYear = JsNull /\ activeYearDigits = {} /\ retentionFilter = "all"
    /\ search = <<>> /\ newnessMode = "all"
    /\ nowMs \in NowValues
    /\ IdleClassifier /\ IdleHistory /\ IdleSampler /\ IdlePath /\ IdleRings
    /\ IdleLoad /\ IdlePlaylist

NextRecency == LoadIndex \/ \E data \in RecencyPayloads : RestoreFilters(data)

SpecRecency == InitRecency /\ [][NextRecency]_vars

\* the set builder over every year, span and era of the rings, for libraries
\* with years inside and outside the eras and one record without a year
RingItem(year) == [BlankItem EXCEPT !.filePath = JsStr(PathA), !.year = year]
RingLibraries ==
    {<<RingItem(JsInt(1980)), RingItem(JsUndef)>>,
     <<RingItem(JsInt(1975)), RingItem(JsInt(2010)), RingItem(JsInt(1984))>>}

InitRings ==
    /\ items \in RingLibraries
    /\ rows = <<>> /\ loaded = FALSE
    /\ IdleClassifier /\ IdleFilters /\ IdleHistory /\ IdleSampler /\ IdlePath /\ IdleRings
    /\ IdleLoad /\ IdlePlaylist

NextRings ==
    \/ LoadSetBuilder
    \/ \E year \in YEAR_VALUES : SetSelectedYear(year)
    \/ \E span \in SeqRange(SPAN_VALUES) : SetSelectedSpan(span)
    \/ \E k \in 1..Len(ERA_DEFINITIONS) : SetSelectedEraId(ERA_DEFINITIONS[k].id)
    \/ PickIterate
    \/ PickReturn

SpecRings == InitRings /\ [][NextRings]_vars


\* the normalizer over batches whose retention score, stars and strength vary
RetentionItems ==
    {[BlankItem EXCEPT !.filePath = JsStr(PathA), !.retentionScore = sc,
                       !.retention_score = sc2, !.retentionStars = st,
                       !.retentionStrength = sg] :
        sc \in {JsUndef, JsNull, JsNaN, JsInt(0 - 5), JsInt(0), JsInt(90), JsInt(100),
                JsInt(150), JsStr(<<"8", "5">>), JsStr(<<"x">>)},
        sc2 \in {JsUndef, JsInt(70)},
        st \in {JsUndef, JsInt(0 - 1), JsInt(0), JsInt(3), JsInt(9), JsStr(<<"4">>)},
        sg \in {JsUndef, JsInt(0 - 2), JsInt(0), JsInt(2), JsInt(7)}}

InitRetention ==
    /\ items \in SeqsUpTo(RetentionItems, MaxRetentionItems)
    /\ rows = <<>> /\ loaded = FALSE
    /\ IdleClassifier /\ IdleFilters /\ IdleHistory /\ IdleSampler /\ IdlePath /\ IdleRings
    /\ IdleLoad /\ IdlePlaylist

SpecRetention == InitRetention /\ [][NextIds]_vars


\* the set builder loading the index and the history document
HistoryItems ==
    {[BlankItem EXCEPT !.filePath = JsStr(p), !.videoId = v] :
        p \in {PathA, PathB, PathNested, PathLower}, v \in {JsUndef, JsStr(<<"a">>)}}
SongEntries ==
    {<<key, stats>> : key \in {PathA, PathB, PathNested, PathLower, PathBackslash,
                                        PathNoMarker, <<"a">>},
                      stats \in {JsUndef, JsInt(1), JsInt(2)}}
\* Object.entries of a JSON object: no key twice
PerSongDocs ==
    {doc \in SeqsUpTo(SongEntries, MaxSongs) :
        \A i, j \in 1..Len(doc) : i # j => doc[i][1] # doc[j][1]}

InitHistory ==
    /\ items \in SeqsUpTo(HistoryItems, MaxHistoryItems)
    /\ rows = <<>> /\ loaded = FALSE
    /\ perSong \in PerSongDocs
    /\ historyWeights = <<>> /\ historyLoaded = FALSE
    /\ IdleClassifier /\ IdleFilters /\ IdleSampler /\ IdlePath /\ IdleRings
    /\ IdleLoad /\ IdlePlaylist

NextHistory == LoadIndex \/ LoadHistory

SpecHistory == InitHistory /\ [][NextHistory]_vars

\* weightedPick over pools of normalized records
SamplerItems ==
    {[BlankItem EXCEPT !.filePath = JsStr(PathA), !.videoId = x[1], !.playcount = x[2],
                       !.retentionScore = x[3]] :
        x \in {<<JsStr(<<"a">>), JsInt(0), JsUndef>>,
               <<JsStr(<<"a">>), JsInt(3), JsInt(150)>>,
               <<JsStr(<<"a", "#", "1">>), JsInt(0 - 1), JsInt(40)>>}}

InitSampler ==
    /\ pool \in {parseVideoIndexRows(its) : its \in SeqsUpTo(SamplerItems, MaxPool)}
    /\ count \in (0 - 1)..MaxCount
    /\ historyWeights \in {AggregateHistory(<<>>), AggregateHistory(<<<<<<"a">>, JsInt(2)>>>>)}
    /\ available = <<>> /\ picks = <<>> /\ preview = <<>> /\ pickPc = "idle"
    /\ perSong = <<>> /\ historyLoaded = TRUE
    /\ IdleClassifier /\ IdleLibrary /\ IdleFilters /\ IdlePath /\ IdleRings
    /\ IdleLoad /\ IdlePlaylist

NextSampler == PickEnter \/ PickIterate \/ PickReturn

SpecSampler == InitSampler /\ [][NextSampler]_vars

\* the library view's load over every answer of the network, with the view
\* unmounted before or after the answer arrives
LoadResponses ==
    {[kind |-> "reject", ok |-> FALSE, status |-> 0, body |-> "none", message |-> m] :
        m \in {<<"Failed to fetch">>, <<>>}}
    \cup {[kind |-> "http", ok |-> FALSE, status |-> st, body |-> "items", message |-> <<>>] :
             st \in {404, 500}}
    \cup {[kind |-> "http", ok |-> TRUE, status |-> 200, body |-> b, message |-> <<>>] :
             b \in {"items", "array", "other"}}
    \cup {[kind |-> "http", ok |-> TRUE, status |-> 200, body |-> "invalid",
           message |-> <<"Unexpected token">>]}

InitLoad ==
    /\ items \in SeqsUpTo(IdItems, MaxLoadItems)
    /\ rows = <<>> /\ loaded = FALSE
    /\ loading = TRUE /\ error = JsNull /\ cancelled = FALSE /\ loadPc = "idle"
    /\ response \in LoadResponses
    /\ IdleClassifier /\ IdleFilters /\ IdleHistory /\ IdleSampler /\ IdlePath /\ IdleRings
    /\ IdlePlaylist

NextLoad == StartLoad \/ Unmount \/ SettleLoad

SpecLoad == InitLoad /\ [][NextLoad]_vars

\* the library view over a loaded index while the search string, the decade
\* and tier pills and the sort mode change and all filters are cleared
FrameItems ==
    {[BlankItem EXCEPT !.filePath = JsStr(PathA), !.year = y, !.playcount = p[1],
                       !.title = p[2]] :
        y \in {JsInt(1975), JsInt(1985)},
        p \in {<<JsInt(0), JsStr(<<"B">>)>>, <<JsInt(30), JsStr(<<"A">>)>>}}

FrameQueries == {<<>>, <<"b">>, <<"1", "9", "8", "5">>}
FramePills == {"70s", "80s"}
FrameTiers == {"promo", "power"}

InitFrame ==
    /\ items \in SeqsUpTo(FrameItems, MaxFrameItems)
    /\ rows = <<>> /\ loaded = FALSE
    /\ IdleClassifier /\ IdleFilters /\ IdleHistory /\ IdleSampler /\ IdlePath /\ IdleRings
    /\ IdleLoad /\ IdlePlaylist

NextFrame ==
    \/ LoadIndex
    \/ \E pill \in FramePills : ToggleDecade(pill)
    \/ \E tier \in FrameTiers : ToggleTier(tier)
    \/ CycleSortMode
    \/ \E value \in FrameQueries : SetSearch(value)
    \/ clearAllFilters

SpecFrame == InitFrame /\ [][NextFrame]_vars

\* the library view searched by titles that carry accented letters, typed with
\* the accents or with the base letters
AccentTitles ==
    {<<"c", "a", "f", "e-acute">>, <<"E-acute", "t", "e">>, <<"u-umlaut", "b", "e", "r">>,
     <<"s", "e-acute", "n", "o", "r">>, <<"n", "o", "r", "d">>}
AccentItems ==
    {[BlankItem EXCEPT !.filePath = JsStr(p), !.title = JsStr(t)] :
        p \in {PathA, PathB}, t \in AccentTitles}
AccentQueries ==
    AccentTitles \cup {<<"c", "a", "f", "e">>, <<"e", "t", "e">>, <<"u", "b", "e", "r">>,
                       <<"s", "e", "n", "o", "r">>, <<"E", "T", "E">>}

InitAccent ==
    /\ items \in SeqsUpTo(AccentItems, MaxAccentItems)
    /\ rows = <<>> /\ loaded = FALSE
    /\ IdleClassifier /\ IdleFilters /\ IdleHistory /\ IdleSampler /\ IdlePath /\ IdleRings
    /\ IdleLoad /\ IdlePlaylist

NextAccent ==
    \/ LoadIndex
    \/ \E value \in AccentQueries : search = <<>> /\ SetSearch(value)
    \/ (search # <<>> /\ SetSearch(<<>>))

SpecAccent == InitAccent /\ [][NextAccent]_vars

\* the playlist context over every queue and player operation, the stored
\* queue being any list of the videos; reorderQueue is called with indices
\* inside and one past either end of the longest queue
VideoSet == {Video("a"), Video("b"), Video("c")}
ReorderIndices == (0 - 1)..MaxQueue

InitPlaylist ==
    /\ queue \in SeqsUpTo(VideoSet, MaxQueue)
    /\ nowPlaying = NullVideo /\ playerSource = Single
    /\ effectPending = FALSE /\ lastOp = NoOp
    /\ IdleClassifier /\ IdleLibrary /\ IdleFilters /\ IdleHistory /\ IdleSampler /\ IdlePath
    /\ IdleRings /\ IdleLoad

NextPlaylist ==
    \/ QueueEffect
    \/ \E video \in VideoSet : addToQueue(video)
    \/ \E videos \in SeqsUpTo(VideoSet, MaxMany) : addManyToQueue(videos)
    \/ \E videos \in SeqsUpTo(VideoSet, MaxMany) : replaceQueue(videos)
    \/ \E video \in VideoSet : removeFromQueue(video.id)
    \/ clearQueue
    \/ \E fromIndex, toIndex \in ReorderIndices : reorderQueue(fromIndex, toIndex)
    \/ \E video \in VideoSet : moveQueueItemTop(video.id)
    \/ \E video \in VideoSet : moveQueueItemBottom(video.id)
    \/ \E video \in VideoSet, preferQueue \in BOOLEAN : openPlayer(video, preferQueue)
    \/ closePlayer
    \/ onPlayerEnded

SpecPlaylist == InitPlaylist /\ [][NextPlaylist]_vars

\* a player opened once over a stored queue, then left to play: only ended
\* events occur.  A playing video ends after a while and React always runs a
\* pending effect, hence the two fairness conditions.
InitEnded == InitPlaylist

NextEnded ==
    \/ QueueEffect
    \/ (lastOp = NoOp /\ \E video \in VideoSet, preferQueue \in BOOLEAN :
                             openPlayer(video, preferQueue))
    \/ onPlayerEnded

SpecEnded ==
    InitEnded /\ [][NextEnded]_vars /\ WF_vars(QueueEffect) /\ WF_vars(onPlayerEnded)


(***************************************************************************)
(* Properties                                                              *)
(***************************************************************************)
IdsOf(list) == {list[i].id : i \in 1..Len(list)}
IdsDistinct(list) == \A i, j \in 1..Len(list) : i # j => list[i].id # list[j].id

\* C1: once weightedPick has returned for a pool with pairwise distinct ids, the
\* result holds exactly min(count, pool.length) records when count > 0 and none
\* when count <= 0 or the pool is empty, every one a member of the pool, no two
\* with the same id.
SamplerCountAndDistinct ==
    (pickPc = "done" /\ IdsDistinct(pool)) =>
        /\ count > 0 => Len(preview) = Min(count, Len(pool))
        /\ (count <= 0 \/ pool = <<>>) => preview = <<>>
        /\ \A i \in 1..Len(preview) : preview[i] \in SeqRange(pool)
        /\ IdsDistinct(preview)

\* C1 witness: two records drawn from a pool of three distinct ids
SamplerDrewTwoOfThree ==
    /\ pickPc = "done" /\ IdsDistinct(pool)
    /\ Len(pool) = 3 /\ count = 2 /\ Len(preview) = 2

\* C2: after one normalization pass no two output records have the same id.
IdsUniqueInBatch == loaded => IdsDistinct(rows)

\* the item's path field (filePath, else filepath) is a string holding '/VIDEO/'
PathHasMarker(item) ==
    LET path == Coalesce(item.filePath, item.filepath)
    IN path.t = "str" /\ IndexOf(path.s, Marker) > 0

\* C3: of N raw items of which K have no path holding the marker, the normalizer
\* returns N-K records, one per remaining item, in the input's relative order.
NormalizerDropsUnresolvable ==
    loaded =>
        /\ Len(rows) = Len(items) - Cardinality({i \in 1..Len(items) : ~PathHasMarker(items[i])})
        /\ [i \in 1..Len(rows) |-> rows[i].raw] = SelectSeq(items, PathHasMarker)

\* C3 witness: the middle one of three items is dropped, the outer two are kept
NormalizerDroppedMiddle ==
    /\ loaded /\ Len(items) = 3 /\ Len(rows) = 2
    /\ ~PathHasMarker(items[2])
    /\ items[1] # items[3]

TierDerivedFromPlaycount ==
    loaded =>
        \A i \in 1..Len(rows) :
            LET derived == tierFromPlaycount(JsInt(rows[i].playcount))
                upstream == normalizeCanonicalTier(rows[i].raw.tier)
            IN /\ derived # NULL => rows[i].tier = derived
               /\ rows[i].tier # derived => (derived = NULL /\ rows[i].tier = upstream)

\* C5 witness: a kept record whose raw item names another tier than the one kept
TierOverridesUpstream ==
    /\ loaded
    /\ \E i \in 1..Len(rows) :
          /\ normalizeCanonicalTier(rows[i].raw.tier) # NULL
          /\ normalizeCanonicalTier(rows[i].raw.tier) # rows[i].tier

\* C6: with decade pills and tier pills both active, the filtered list holds
\* exactly the ids found both in the list filtered by the decades alone and in
\* the list filtered by the tiers alone.
FilterConjunctionById ==
    loaded =>
        IdsOf(filteredVideos) =
            IdsOf(FilteredVideos(rows, activeSpinYear, activeDecades, activeYearDigits,
                                 retentionFilter, {}, sortMode))
            \cap IdsOf(FilteredVideos(rows, activeSpinYear, {}, activeYearDigits,
                                      retentionFilter, activeTiers, sortMode))

\* the first year of a decade pill's ten-year band
DecadeStart(pill) ==
    CASE pill = "60s" -> 1960 [] pill = "70s" -> 1970 [] pill = "80s" -> 1980
      [] pill = "90s" -> 1990 [] pill = "00s" -> 2000 [] pill = "10s" -> 2010

\* C7: with one decade pill selected and no other filter, a record passes exactly
\* when its year is a number within the pill's ten years.
DecadePillsTenYearBands ==
    (loaded /\ Cardinality(activeDecades) = 1 /\ activeTiers = {}) =>
        \A pill \in activeDecades : \A i \in 1..Len(rows) :
            (rows[i] \in SeqRange(filteredVideos)) <=>
                /\ rows[i].year.t = "num"
                /\ DecadeStart(pill) <= YearNumber(rows[i].year)
                /\ YearNumber(rows[i].year) <= DecadeStart(pill) + 9

\* the order the specification gives for two records under a sort mode, a before b
TitleAscending(a, b) == localeCompare(a.title, b.title) <= 0
InClaimedOrder(a, b, mode) ==
    CASE mode = "plays" ->
            a.playcount > b.playcount \/ (a.playcount = b.playcount /\ TitleAscending(a, b))
      [] mode = "year" ->
            IF a.year.t = "num" /\ b.year.t = "num"
            THEN \/ YearNumber(a.year) > YearNumber(b.year)
                 \/ (YearNumber(a.year) = YearNumber(b.year) /\ TitleAscending(a, b))
            ELSE IF a.year.t = "num" THEN TRUE
            ELSE IF b.year.t = "num" THEN FALSE
            ELSE TitleAscending(a, b)
      [] mode = "artist" ->
            \/ localeCompare(a.artist, b.artist) < 0
            \/ (localeCompare(a.artist, b.artist) = 0 /\ TitleAscending(a, b))
      [] OTHER -> TitleAscending(a, b)

\* C8: the visible list is in the order of the active sort mode: plays descending
\* then title; year descending with null years after every numeric year, then
\* title; artist then title; title.
VisibleSortedByMode ==
    loaded =>
        \A i, j \in 1..Len(filteredVideos) :
            i < j => InClaimedOrder(filteredVideos[i], filteredVideos[j], sortMode)

\* the breakdown the raw item supplies
SuppliedBreakdown(item) ==
    IF IsNullish(item.retentionBreakdown) THEN item.retention_breakdown
    ELSE item.retentionBreakdown

\* C9: the record's retentionBreakdown is null when any of the nine sub-scores is
\* missing or not a number, and otherwise an object of nine numbers.
BreakdownAllOrNothing ==
    loaded =>
        \A i \in 1..Len(rows) :
            LET given == SuppliedBreakdown(rows[i].raw)
                out == rows[i].retentionBreakdown
            IN IF given.t = "object" /\ \A k \in BreakdownKeySet : given.o[k].t = "num"
               THEN out.t = "object" /\ \A k \in BreakdownKeySet : out.o[k].t = "num"
               ELSE out.t = "null"

\* C10: for a perSong key that is the source path of a loaded record and holds
\* the marker, the weight map has the record's filePath as a key, with the
\* track's totalPlays.
HistoryKeyedByFilePath ==
    (loaded /\ historyLoaded) =>
        \A i \in 1..Len(rows) : \A e \in 1..Len(perSong) :
            (perSong[e][1] = RawPath(rows[i].raw) /\ IndexOf(perSong[e][1], Marker) > 0) =>
                /\ rows[i].filePath \in DOMAIN historyWeights
                /\ historyWeights[rows[i].filePath] = TotalPlays(perSong[e][2])

\* the marker-relative key the history effect derives from a perSong key
\* (the empty string when the key holds no marker)
RelativeKey(songKey) ==
    LET normalized == SlashesForward(songKey)
        videoMarker == IndexOf(ToUpperCase(normalized), Marker)
    IN IF videoMarker = 0 THEN <<>>
       ELSE Marker \o SubSeq(normalized, videoMarker + Len(Marker), Len(normalized))

\* the largest totalPlays among the perSong entries of one marker-relative key
MaxPlaysOfTrack(rel) ==
    LET plays == {TotalPlays(perSong[e][2]) :
                     e \in {x \in 1..Len(perSong) : RelativeKey(perSong[x][1]) = rel}}
    IN CHOOSE m \in plays : \A q \in plays : q <= m

\* C11: once the history document is aggregated, every perSong key that holds
\* the marker has an entry under the raw key and one under the marker-relative
\* key, and both hold the largest totalPlays of that track.
HistoryDualKeyed ==
    historyLoaded =>
        \A e \in 1..Len(perSong) :
            LET songKey == perSong[e][1]
                rel == RelativeKey(songKey)
            IN rel # <<>> =>
                /\ songKey \in DOMAIN historyWeights
                /\ rel \in DOMAIN historyWeights
                /\ historyWeights[songKey] = historyWeights[rel]
                /\ historyWeights[rel] = MaxPlaysOfTrack(rel)

\* C20: tierFromPlaycount follows the table of the wheel specification for whole
\* playcounts: Promo for 0 and 1, Light for 4 to 7, Medium for 8 to 15, Heavy for
\* 16 to 30 inclusive, Power above 30.
TierFollowsWheelTable ==
    (tierResult # "pending" /\ playcountArg.t = "num" /\ playcountArg.n % 10 = 0) =>
        LET plays == playcountArg.n \div 10
        IN /\ (0 <= plays /\ plays <= 1) => tierResult = "Promo"
           /\ (4 <= plays /\ plays <= 7) => tierResult = "Light"
           /\ (8 <= plays /\ plays <= 15) => tierResult = "Medium"
           /\ (16 <= plays /\ plays <= 30) => tierResult = "Heavy"
           /\ plays > 30 => tierResult = "Power"

\* C17: every record's retentionScore lies between 0 and 100, and is 0 when the
\* upstream retentionScore and retention_score are both absent.
RetentionScoreInRange ==
    loaded =>
        \A i \in 1..Len(rows) :
            /\ 0 <= rows[i].retentionScore /\ rows[i].retentionScore <= 100
            /\ (IsNullish(rows[i].raw.retentionScore) /\ IsNullish(rows[i].raw.retention_score))
                   => rows[i].retentionScore = 0

\* C18: every record's playcount is a non-negative integer, and is 0 when none
\* of playcount, playCount and play_count parses as a number.
PlaycountNonNegative ==
    loaded =>
        \A i \in 1..Len(rows) :
            /\ rows[i].playcount \in Nat
            /\ (\A v \in {rows[i].raw.playcount, rows[i].raw.playCount, rows[i].raw.play_count} :
                    clampToInt(v) = JsNull) => rows[i].playcount = 0

\* C19: every item with a resolvable path is kept, with retentionStars in 1..5
\* and retentionStrength in 1..4; an upstream integer outside the range is
\* moved to the nearest end of the range.
StarsAndStrengthClamped ==
    loaded =>
        /\ Len(rows) = Len(items)
        /\ \A i \in 1..Len(rows) :
            /\ rows[i].retentionStars \in 1..5
            /\ rows[i].retentionStrength \in 1..4
            /\ rows[i].raw.retentionStars.t = "num" =>
                   rows[i].retentionStars =
                       (IF rows[i].raw.retentionStars.n < 10 THEN 1
                        ELSE IF rows[i].raw.retentionStars.n > 50 THEN 5
                        ELSE Trunc(rows[i].raw.retentionStars.n))
            /\ rows[i].raw.retentionStrength.t = "num" =>
                   rows[i].retentionStrength =
                       (IF rows[i].raw.retentionStrength.n < 10 THEN 1
                        ELSE IF rows[i].raw.retentionStrength.n > 40 THEN 4
                        ELSE Trunc(rows[i].raw.retentionStrength.n))

\* C19 witness: a record kept with negative upstream stars and an upstream
\* strength of 7
StarsRaisedStrengthCapped ==
    /\ loaded /\ Len(rows) = 1
    /\ rows[1].raw.retentionStars = JsInt(0 - 1) /\ rows[1].retentionStars = 1
    /\ rows[1].raw.retentionStrength = JsInt(7) /\ rows[1].retentionStrength = 4

\* C16: for a path holding the marker, relativePath starts with 'VIDEO/', holds
\* no backslash, and absolutePath is the canonical root, a slash and what
\* follows the marker; for a path without the marker both fields are null.
PathNormalized ==
    pathDone =>
        LET idx == IndexOf(pathArg, Marker)
            remainder == SlashesForward(SubSeq(pathArg, idx + Len(Marker), Len(pathArg)))
        IN IF idx > 0
           THEN /\ pathResult.relativePath.t = "str"
                /\ Len(pathResult.relativePath.s) >= 2
                /\ SubSeq(pathResult.relativePath.s, 1, 2) = <<"VIDEO", "/">>
                /\ \A i \in 1..Len(pathResult.relativePath.s) :
                       pathResult.relativePath.s[i] # "\\"
                /\ pathResult.absolutePath = JsStr(CANONICAL_VIDEO_ROOT \o <<"/">> \o remainder)
           ELSE pathResult = [relativePath |-> JsNull, absolutePath |-> JsNull]

\* C16 witness: a path with a backslash after the marker has been normalized
PathBackslashAfterMarker ==
    /\ pathDone
    /\ pathArg = <<"/", "VIDEO", "/", "\\">>
    /\ pathResult.relativePath = JsStr(<<"VIDEO", "/", "/">>)

\* a token with its en and em dashes turned into hyphens
Hyphenated(token) == [i \in 1..Len(token) |-> IF token[i] \in {"endash", "emdash"} THEN "-"
                                               ELSE token[i]]

\* the token reads: 2-4 digits, one dash, 2-4 digits
IsRangeShaped(token) ==
    \E h \in 1..Len(token) :
        /\ Hyphenated(token)[h] = "-"
        /\ AllDigits(SubSeq(token, 1, h - 1)) /\ (h - 1) \in 2..4
        /\ AllDigits(SubSeq(token, h + 1, Len(token))) /\ (Len(token) - h) \in 2..4

\* the year range a range-shaped token stands for: a two-digit part is 19xx,
\* but a two-digit right part after a four-digit left part takes its century
RangeOfToken(token) ==
    LET h == CHOOSE i \in 1..Len(token) : Hyphenated(token)[i] = "-"
        l == SubSeq(token, 1, h - 1)
        r == SubSeq(token, h + 1, Len(token))
        left == IF Len(l) = 2 THEN 1900 + DigitsValue(l) ELSE DigitsValue(l)
        right == IF Len(l) = 4 /\ Len(r) = 2 THEN (left \div 100) * 100 + DigitsValue(r)
                 ELSE IF Len(r) = 2 THEN 1900 + DigitsValue(r)
                 ELSE DigitsValue(r)
    IN [start |-> Min(left, right), end |-> Max(left, right)]

\* C12: every range-shaped token of the search string contributes exactly its
\* year range, at its place among the ranges, and neither an exact year nor a
\* text token; every range has start <= end.
ParseSearchRanges ==
    LET toks == Words(search)
        full == parseSearch(search)
    IN /\ \A k \in 1..Len(full.yearRanges) : full.yearRanges[k].start <= full.yearRanges[k].end
       /\ \A i \in 1..Len(toks) :
            IsRangeShaped(toks[i]) =>
                LET before == parseSearch(JoinSpace(SubSeq(toks, 1, i - 1)))
                    after == parseSearch(JoinSpace(SubSeq(toks, i + 1, Len(toks))))
                    rest == parseSearch(JoinSpace(SubSeq(toks, 1, i - 1)
                                                  \o SubSeq(toks, i + 1, Len(toks))))
                IN /\ full.yearRanges = before.yearRanges \o <<RangeOfToken(toks[i])>>
                                            \o after.yearRanges
                   /\ full.yearValues = rest.yearValues
                   /\ full.textTokens = rest.textTokens

\* C12 witness: '2005-10' typed with an en dash, after a text token, is the one
\* range 2005..2010
ParsedCenturyRange ==
    /\ search = <<"Q", " ", "2", "0", "0", "5", "endash", "1", "0">>
    /\ parseSearch(search) = [textTokens |-> <<(<<"q">>)>>, yearValues |-> <<>>,
                              yearRanges |-> <<[start |-> 2005, end |-> 2010]>>]

\* the record's year is a number, equals every exact year of the query and lies
\* in the intersection of the query's ranges
YearPartPasses(row, query) ==
    LET starts == {query.yearRanges[k].start : k \in 1..Len(query.yearRanges)}
        ends == {query.yearRanges[k].end : k \in 1..Len(query.yearRanges)}
    IN (query.yearValues = <<>> /\ query.yearRanges = <<>>) \/
          /\ row.year.t = "num"
          /\ \A k \in 1..Len(query.yearValues) : query.yearValues[k] * 10 = row.year.n
          /\ \A lo \in starts : lo * 10 <= row.year.n
          /\ \A hi \in ends : row.year.n <= hi * 10

\* C13: under a search made of year and range tokens only, the visible records
\* are exactly the loaded records whose year is a number, equals each exact
\* year and lies within every range; a record without a year is hidden by any
\* such token.
YearSearchExact ==
    (loaded /\ parseSearch(search).textTokens = <<>>) =>
        /\ \A i \in 1..Len(rows) :
              (\E j \in 1..Len(filteredVideos) : filteredVideos[j].id = rows[i].id)
                  <=> YearPartPasses(rows[i], parseSearch(search))
        /\ Len(filteredVideos) <= Len(rows)

\* C13 witness: two overlapping ranges hide the record of 1975 and show the
\* record of 1983
RangesIntersected ==
    /\ loaded /\ Len(rows) = 2
    /\ search = <<"7", "5", "-", "8", "3", " ", "8", "0", "-", "9", "0">>
    /\ rows[1].year = JsInt(1975) /\ rows[2].year = JsInt(1983)
    /\ Len(filteredVideos) = 1 /\ filteredVideos[1].id = rows[2].id

\* the days of a recency window
WindowDays(mode) == IF mode = "30d" THEN 30 ELSE IF mode = "90d" THEN 90 ELSE 365

\* the record's timestamp: firstSeenMs, or the parsed addedAt when firstSeenMs is
\* null; JsNull when there is neither
RecencyStamp(row) ==
    IF row.firstSeenMs # JsNull THEN row.firstSeenMs
    ELSE IF IsFiniteNumber(DateGetTime(row.addedAt)) THEN DateGetTime(row.addedAt)
    ELSE JsNull

\* C14: with no other filter active, mode 'all' shows every record; under a
\* window of N days a record is shown exactly when its timestamp (firstSeenMs,
\* else the parsed addedAt) exists and is >= now - N days.
RecencyByPreferredStamp ==
    loaded =>
        \A i \in 1..Len(rows) :
            (\E j \in 1..Len(filteredVideos) : filteredVideos[j].id = rows[i].id)
                <=> \/ newnessMode = "all"
                    \/ /\ RecencyStamp(rows[i]) # JsNull
                       /\ Trunc(RecencyStamp(rows[i]).n) >= nowMs - WindowDays(newnessMode) * 24

\* the years common to the selected era and the span window around the selected
\* year (from Low to High; empty when Low > High)
CommonLow ==
    LET windowStart == IF selectedSpan = FullSpan THEN YEAR_DOMAIN_MIN
                       ELSE Max(YEAR_DOMAIN_MIN, Min(YEAR_DOMAIN_MAX, selectedYear - selectedSpan))
    IN Max(windowStart, getEraDefinition(selectedEraId).start)
CommonHigh ==
    LET windowEnd == IF selectedSpan = FullSpan THEN YEAR_DOMAIN_MAX
                     ELSE Min(YEAR_DOMAIN_MAX, Max(YEAR_DOMAIN_MIN, selectedYear + selectedSpan))
    IN Min(windowEnd, getEraDefinition(selectedEraId).end)

\* C15: when the era and the span window share no year the candidate pool is
\* empty, and so is the preview once its effect has run; when they share years
\* the candidates are exactly the loaded records whose year is one of them
\* (tier 'mixed', recency 'all', genre 'all').
EmptyOverlapNoResults ==
    /\ CommonLow > CommonHigh => filtered = <<>>
    /\ CommonLow <= CommonHigh =>
           \A i \in 1..Len(rows) :
               (\E j \in 1..Len(filtered) : filtered[j].id = rows[i].id)
                   <=> /\ rows[i].year.t = "num"
                       /\ CommonLow * 10 <= rows[i].year.n
                       /\ rows[i].year.n <= CommonHigh * 10
    /\ pickPc = "done" =>
           /\ pool = filtered
           /\ IdsOf(preview) \subseteq IdsOf(filtered)
           /\ CommonLow > CommonHigh => preview = <<>>

\* C15 witness: year 1980 with span 5 under the EDM era (2005-2020), the
\* library holding a record of 1980, and the preview effect has run
NoOverlapPreviewEmpty ==
    /\ loaded /\ pickPc = "done"
    /\ selectedYear = 1980 /\ selectedSpan = 5 /\ selectedEraId = "edm"
    /\ \E i \in 1..Len(rows) : rows[i].year = JsInt(1980)
    /\ filtered = <<>> /\ preview = <<>>

\* the answers of the network that make loadVideoIndex resolve
LoadSucceeds(resp) == resp.kind = "http" /\ resp.ok /\ resp.body # "invalid"

\* the message a failed load leaves in `error`
LoadFailureMessage(resp) ==
    IF resp.kind = "http" /\ ~resp.ok
    THEN <<"Failed to load video-index.json (">> \o NatDigits(resp.status) \o <<")">>
    ELSE IF resp.message = <<>> THEN <<"Load error">> ELSE resp.message

\* C21: once the view is superseded (cancelled set), no step changes rows,
\* error or loading; a load that settles while not superseded sets rows to the
\* normalized records on success, or error to the failure's message on
\* failure, and ends with loading = false in both cases.
SupersededLoadDiscarded ==
    [][/\ cancelled => UNCHANGED <<rows, error, loading>>
       /\ (~cancelled /\ loadPc = "fetching" /\ loadPc' = "done") =>
             /\ loading' = FALSE
             /\ IF LoadSucceeds(response)
                THEN /\ rows' = parseVideoIndexRows(IF response.body = "other" THEN <<>>
                                                    ELSE items)
                     /\ error' = JsNull
                ELSE /\ error' = JsStr(LoadFailureMessage(response))
                     /\ rows' = rows]_vars

\* C21 witness: a successful answer carrying a resolvable record arrived after
\* the view was superseded, and the view still shows loading and no rows
StaleLoadArrived ==
    /\ loadPc = "done" /\ cancelled /\ loading = TRUE /\ error = JsNull
    /\ LoadSucceeds(response) /\ response.body = "items"
    /\ parseVideoIndexRows(items) # <<>> /\ rows = <<>>

\* the list shown for sort mode `mode` once every filter is cleared: every
\* stage of the useMemo applied with the cleared filter state
ClearedView(mode) ==
    SortRows(SelectSeq(rows, LAMBDA row :
                 /\ SearchStage(row, parseSearch(<<>>))
                 /\ SpinYearStage(row, JsNull)
                 /\ DecadeStage(row, {})
                 /\ YearDigitStage(row, {})
                 /\ RetentionStage(row, "all")
                 /\ TierStage(row, {})
                 /\ recencyMatch(row, "all", nowMs)),
             mode)

\* C22: whatever search, pill, sort and clear steps were taken, the loaded
\* record set is still the normalizer's output, same records in the same
\* order, and the list shown with all filters cleared under a given sort is
\* the list that sort gives for the loaded records.
RecordSetNeverMutated ==
    loaded =>
        /\ rows = parseVideoIndexRows(items)
        /\ \A mode \in SeqRange(SORT_CYCLE) :
              ClearedView(mode) = SortRows(parseVideoIndexRows(items), mode)

\* C22 witness: two records are loaded, a pill and a search are active under
\* the title sort, the view shows fewer records than are loaded, and the
\* title sort would have reordered the loaded array had it been applied to it
FilteredViewOverIntactRows ==
    /\ loaded /\ Len(rows) = 2
    /\ sortMode = "title" /\ activeDecades # {} /\ search # <<>>
    /\ Len(filteredVideos) = 1
    /\ SortRows(rows, sortMode) # rows

\* the upstream tier values a raw item may carry
UpstreamTiers ==
    {JsUndef, JsNull, JsStr(<<"Power">>), JsStr(<<"Promo">>), JsStr(<<"bogus">>), JsInt(3)}

\* C23: every kept record has a tier, the tier is the same whatever the raw
\* item's tier field holds, and for every record some tier pill lets it
\* through the tier stage.
EveryRecordTiered ==
    loaded =>
        \A i \in 1..Len(rows) :
            /\ rows[i].tier # NULL
            /\ \A t \in UpstreamTiers :
                  parseVideoIndexRows(<<[rows[i].raw EXCEPT !.tier = t]>>)[1].tier
                      = rows[i].tier
            /\ normalizeTierFilter(rows[i].tier) # NULL
            /\ \E pill \in SeqRange(TIER_FILTERS) : TierStage(rows[i], {pill})

\* C23 witness: a kept record whose raw item has no usable playcount field and
\* no usable tier, tiered Promo by the default playcount
DefaultPlaycountTiered ==
    /\ loaded
    /\ \E i \in 1..Len(rows) :
          /\ clampToInt(rows[i].raw.playcount) = JsNull
          /\ clampToInt(rows[i].raw.playCount) = JsNull
          /\ normalizeCanonicalTier(rows[i].raw.tier) = NULL
          /\ rows[i].playcount = 0 /\ rows[i].tier = "Promo"

\* C24: a kept record whose raw item carries no retention indicator has a
\* five-glyph indicator: as many '*' as its own retentionStars, then '-' up
\* to five.
IndicatorFiveGlyphs ==
    loaded =>
        \A i \in 1..Len(rows) :
            asString(Coalesce(rows[i].raw.retentionIndicator,
                              rows[i].raw.retention_indicator)) = <<>> =>
                /\ Len(rows[i].retentionIndicator) = 5
                /\ rows[i].retentionIndicator =
                       Repeat("*", rows[i].retentionStars)
                           \o Repeat("-", 5 - rows[i].retentionStars)

\* a title has an accented letter
HasAccent(title) ==
    \E k \in 1..Len(title) : LowerLetter(title[k]) \in {"e-acute", "u-umlaut"}

\* a title typed with the base letters only
BaseLetters(title) == [k \in 1..Len(title) |-> StripDiacritic(LowerLetter(title[k]))]

\* C25: a record whose title has accented letters is shown both when the
\* search string is that title as written and when it is the title typed with
\* plain base letters.
SearchIgnoresDiacritics ==
    loaded =>
        \A i \in 1..Len(rows) :
            (HasAccent(rows[i].title) /\ search \in {rows[i].title, BaseLetters(rows[i].title)})
                => \E j \in 1..Len(filteredVideos) : filteredVideos[j] = rows[i]

\* the exact 4-digit year tokens typed into the search box
ExactYearTokens == {<<"1", "9", "8", "0">>, <<"1", "9", "8", "1">>, <<"1", "9", "9", "0">>}

\* C26: a search string made of two different exact 4-digit years shows no
\* record, whatever records are loaded.
TwoExactYearsMatchNothing ==
    loaded =>
        \A a, b \in ExactYearTokens :
            (a # b /\ search = a \o <<" ">> \o b) => filteredVideos = <<>>

\* C26 witness: records of 1980 and of 1990 are loaded, the search string is
\* '1980 1990', and nothing is shown
BothYearsLoadedNoneShown ==
    /\ loaded /\ Len(rows) = 2
    /\ rows[1].year = JsInt(1980) /\ rows[2].year = JsInt(1990)
    /\ search = <<"1", "9", "8", "0", " ", "1", "9", "9", "0">>
    /\ filteredVideos = <<>>

\* the operations that reorder the queue
ReorderOps == {"reorderQueue", "moveQueueItemTop", "moveQueueItemBottom"}

\* C27: when playback was sourced from the queue and the last operation was a
\* queue reordering, then once the queue effect has run the video playing has
\* the id it had before the operation.
ReorderKeepsPlaying ==
    (~effectPending /\ lastOp.name \in ReorderOps /\ lastOp.source.type = "queue")
        => nowPlaying.id = lastOp.before.id

\* C28: when playback was sourced from the queue and the last operation removed
\* an id other than the playing video's, then once the queue effect has run
\* the video playing has the id it had before the removal.
RemoveOtherKeepsPlaying ==
    (/\ ~effectPending /\ lastOp.name = "removeFromQueue"
     /\ lastOp.source.type = "queue" /\ lastOp.id # lastOp.before.id)
        => nowPlaying.id = lastOp.before.id

\* C29: once the queue effect has run, a queue-sourced player has its index
\* inside the queue and plays the item at that index; an empty queue means a
\* single-sourced player, and nothing playing when the player was
\* queue-sourced before the last operation.
PlayerFollowsQueue ==
    ~effectPending =>
        /\ playerSource.type = "queue" =>
              /\ playerSource.index \in 0..(Len(queue) - 1)
              /\ nowPlaying = queue[playerSource.index + 1]
        /\ queue = <<>> =>
              /\ playerSource.type = "single"
              /\ lastOp.source.type = "queue" => nowPlaying = NullVideo

\* C29 witness: the playing item was moved from index 0 past the end of a
\* three-item queue, and the effect has brought the index back to 2
IndexClampedAfterReorder ==
    /\ ~effectPending /\ lastOp.name = "reorderQueue"
    /\ lastOp.source = QueueAt(0)
    /\ Len(queue) = 3 /\ playerSource = QueueAt(2)
    /\ nowPlaying = queue[3] /\ nowPlaying = lastOp.before

\* C30: an ended event during queue playback at index i moves the player to
\* the item at index i + 1, or closes it when i is the last index; an ended
\* event of a single video closes the player; the queue effect that follows
\* changes neither; and a playing player, with only ended events occurring,
\* eventually closes.
EndedPlaysThrough ==
    /\ [][(~effectPending /\ lastOp'.name = "onPlayerEnded" /\ effectPending') =>
             IF playerSource.type = "queue" /\ playerSource.index + 1 < Len(queue)
             THEN /\ playerSource' = QueueAt(playerSource.index + 1)
                  /\ nowPlaying' = queue[playerSource.index + 2]
             ELSE nowPlaying' = NullVideo /\ playerSource' = Single]_vars
    /\ [][(effectPending /\ lastOp.name = "onPlayerEnded") =>
             UNCHANGED <<nowPlaying, playerSource>>]_vars
    /\ (nowPlaying # NullVideo) ~> (nowPlaying = NullVideo /\ playerSource = Single)

\* C30 witness: two ended events took a queue of three from index 0 to its
\* last item
EndedReachedLastItem ==
    /\ ~effectPending /\ lastOp.name = "onPlayerEnded"
    /\ lastOp.source = QueueAt(1) /\ playerSource = QueueAt(2)
    /\ Len(queue) = 3 /\ nowPlaying = queue[3]

=============================================================================
